---- MODULE Spec2Model ----
(***************************************************************************)
(* Vinya finance core: the loan ledger (add_loan, delete_loan,             *)
(* add_payment, undo_last_payment), the amortization engine and the        *)
(* prepayment simulators of core/finance_store.py, core/finance_metrics.py *)
(* and modules/finance.py; the practice log of core/career_store.py and    *)
(* the automations list of core/automation_store.py.                       *)
(*                                                                         *)
(* loans is the ledger of data/finance.json, files the content of the      *)
(* store files on disk, today the calendar day, last the outcome of the    *)
(* latest store operation and sim a simulator or reader call in progress.  *)
(* sessions holds the calls on the finance store that are under way, step  *)
(* by step, and time is the clock, in seconds.                             *)
(*                                                                         *)
(* Money is counted in hundredths of the currency unit, so round(x, 2) of  *)
(* the source is rounding to an integer here.  Values that the source      *)
(* holds as unrounded floats (interest, balances inside a schedule) are    *)
(* exact rationals <<numerator, denominator>>.                             *)
(***************************************************************************)
EXTENDS Integers, Sequences, FiniteSets, TLC

VARIABLES loans, today, last, sim, files, sessions, time

vars == <<loans, today, last, sim, files, sessions, time>>

(***************************************************************************)
(* Bounds of the model.                                                    *)
(***************************************************************************)
MaxLoans == 1
MaxPayments == 2
MaxSimMonths == 4

(***************************************************************************)
(* Input values the operations are called with.                            *)
(***************************************************************************)
Principals == {5, 8, 12}
Rates == {120}
Emis == {5}
Tenures == {2}
Amounts == {1, 20}
Notes == {"EMI", "INTEREST", "PRINCIPAL"}
LoanTypes == {"BANK", "INTEREST_ONLY"}
Names == {"Home"}
\* An omitted month_key, and the ValueError of strptime.
NoKey == <<>>
NoDate == <<>>

(***************************************************************************)
(* Exact rational arithmetic for the float expressions of the source.      *)
(***************************************************************************)
Max(a, b) == IF a >= b THEN a ELSE b
Min(a, b) == IF a <= b THEN a ELSE b
Abs(a) == IF a < 0 THEN -a ELSE a

RECURSIVE GCD(_, _)
GCD(a, b) == IF b = 0 THEN a ELSE GCD(b, a % b)

Rat(n, d) ==
  LET g == GCD(Abs(n), d)
  IN  IF n = 0 THEN <<0, 1>> ELSE <<n \div g, d \div g>>

RatInt(n) == <<n, 1>>
LCM(a, b) == (a \div GCD(a, b)) * b
RatAdd(a, b) ==
  LET l == LCM(a[2], b[2])
  IN  Rat(a[1] * (l \div a[2]) + b[1] * (l \div b[2]), l)
RatSub(a, b) ==
  LET l == LCM(a[2], b[2])
  IN  Rat(a[1] * (l \div a[2]) - b[1] * (l \div b[2]), l)
RatMul(a, b) ==
  LET g1 == GCD(Abs(a[1]), b[2])
      g2 == GCD(Abs(b[1]), a[2])
      h1 == IF g1 = 0 THEN 1 ELSE g1
      h2 == IF g2 = 0 THEN 1 ELSE g2
  IN  Rat((a[1] \div h1) * (b[1] \div h2), (a[2] \div h2) * (b[2] \div h1))
RatLE(a, b) ==
  LET l == LCM(a[2], b[2])
  IN  a[1] * (l \div a[2]) <= b[1] * (l \div b[2])
RatLT(a, b) == ~RatLE(b, a)
RatMax(a, b) == IF RatLE(b, a) THEN a ELSE b
RatMin(a, b) == IF RatLE(a, b) THEN a ELSE b

\* round(x, 2): to the nearest hundredth, a tie going to the even one.
Round2(q) ==
  LET f == q[1] \div q[2]
      r == q[1] - f * q[2]
  IN  IF 2 * r < q[2] THEN f
      ELSE IF 2 * r > q[2] THEN f + 1
      ELSE IF f % 2 = 0 THEN f ELSE f + 1

\* rate / 12 / 100
MonthlyRate(rate) == Rat(rate, 1200)

(***************************************************************************)
(* Calendar dates <<year, month, day>> and their text forms.  A string is  *)
(* the sequence of its characters.                                         *)
(***************************************************************************)
Digits == <<"0", "1", "2", "3", "4", "5", "6", "7", "8", "9">>
DigitChar(n) == Digits[n + 1]
IsDigit(c) == \E n \in 0..9 : Digits[n + 1] = c
DigitVal(c) == CHOOSE n \in 0..9 : Digits[n + 1] = c

Pad2(n) == <<DigitChar((n \div 10) % 10), DigitChar(n % 10)>>
Pad4(n) == <<DigitChar((n \div 1000) % 10), DigitChar((n \div 100) % 10)>> \o Pad2(n % 100)

\* date.isoformat(): YYYY-MM-DD
IsoFormat(d) == Pad4(d[1]) \o <<"-">> \o Pad2(d[2]) \o <<"-">> \o Pad2(d[3])
\* strftime("%Y-%m")
MonthKeyOf(d) == Pad4(d[1]) \o <<"-">> \o Pad2(d[2])
\* str.startswith
StartsWith(s, prefix) ==
  /\ Len(prefix) <= Len(s)
  /\ SubSeq(s, 1, Len(prefix)) = prefix

IsLeap(y) == (y % 4 = 0 /\ y % 100 # 0) \/ y % 400 = 0
DaysInMonth(y, m) ==
  IF m = 2 THEN (IF IsLeap(y) THEN 29 ELSE 28)
  ELSE IF m \in {4, 6, 9, 11} THEN 30 ELSE 31

\* datetime.strptime(s, "%Y-%m-%d").date(): %Y is four digits, %m and %d are
\* one or two digits; NoDate stands for the ValueError of a string that does
\* not match or names no calendar day.
AllDigits(s) == \A i \in 1..Len(s) : IsDigit(s[i])
NumVal(s) == IF Len(s) = 1 THEN DigitVal(s[1]) ELSE 10 * DigitVal(s[1]) + DigitVal(s[2])
Strptime(s) ==
  IF Len(s) < 8 \/ ~AllDigits(SubSeq(s, 1, 4)) \/ s[5] # "-" THEN NoDate
  ELSE
    LET y == 1000 * DigitVal(s[1]) + 100 * DigitVal(s[2]) + 10 * DigitVal(s[3]) + DigitVal(s[4])
        rest == SubSeq(s, 6, Len(s))
        cut == IF rest[2] = "-" THEN 2 ELSE 3
        mm == SubSeq(rest, 1, cut - 1)
        dd == SubSeq(rest, cut + 1, Len(rest))
    IN  IF Len(rest) < cut + 1 \/ rest[cut] # "-" \/ Len(dd) \notin {1, 2}
           \/ ~AllDigits(mm) \/ ~AllDigits(dd)
        THEN NoDate
        ELSE IF NumVal(mm) \notin 1..12 \/ y < 1 THEN NoDate
        ELSE IF NumVal(dd) \notin 1..DaysInMonth(y, NumVal(mm)) THEN NoDate
        ELSE <<y, NumVal(mm), NumVal(dd)>>

\* Faulty variant of DateGT: d1 >= d2.
DateGTOrSame(d1, d2) ==
  \/ d1[1] > d2[1]
  \/ d1[1] = d2[1] /\ d1[2] > d2[2]
  \/ d1[1] = d2[1] /\ d1[2] = d2[2] /\ d1[3] >= d2[3]

\* date comparison d1 > d2
DateGT(d1, d2) ==
  \/ d1[1] > d2[1]
  \/ d1[1] = d2[1] /\ d1[2] > d2[2]
  \/ d1[1] = d2[1] /\ d1[2] = d2[2] /\ d1[3] > d2[3]

NextDay(d) ==
  IF d[3] < DaysInMonth(d[1], d[2]) THEN <<d[1], d[2], d[3] + 1>>
  ELSE IF d[2] < 12 THEN <<d[1], d[2] + 1, 1>> ELSE <<d[1] + 1, 1, 1>>
PrevDay(d) ==
  IF d[3] > 1 THEN <<d[1], d[2], d[3] - 1>>
  ELSE IF d[2] > 1 THEN <<d[1], d[2] - 1, DaysInMonth(d[1], d[2] - 1)>>
  ELSE <<d[1] - 1, 12, 31>>

\* The days the clock is observed at: the last day of a month and the first
\* day of the next.
FirstDay == <<2024, 1, 31>>
ModelDates == {FirstDay, NextDay(FirstDay)}
\* Month keys in the YYYY-MM form of current_month_key / month_range: the
\* two months of the modelled days and the month after them.
KeyMonths == {<<2024, m, 1>> : m \in {1, 2, 3}}
MonthKeys == {MonthKeyOf(d) : d \in KeyMonths}
\* The calendar day of datetime.utcnow() is the local day or a neighbour.
UtcDays(d) == {PrevDay(d), d, NextDay(d)}
StartDates == {<<2024, 1, 31>>, <<2024, 3, 1>>}

(***************************************************************************)
(* The stored document: loans, each with its embedded payments.            *)
(***************************************************************************)
Get(rec, key, default) == IF key \in DOMAIN rec THEN rec[key] ELSE default

\* calculate_emis_paid
calculate_emis_paid(loan) ==
  Cardinality({i \in 1..Len(loan.payments) : loan.payments[i].note = "EMI"})

TotalPayments(ls) ==
  LET RECURSIVE Sum(_)
      Sum(i) == IF i = 0 THEN 0 ELSE Len(ls[i].payments) + Sum(i - 1)
  IN  Sum(Len(ls))

\* The last call: the operation, the loan index it was given, how it ended
\* and whether it reached save_finance.
Done(op, idx, out) == [op |-> op, idx |-> idx, result |-> out.result, saved |-> out.saved]

(***************************************************************************)
(* Loan operations.  Each operation is the whole call: load_finance, the   *)
(* checks, the mutation and save_finance; it yields the stored document    *)
(* after the call and the call's outcome.                                  *)
(***************************************************************************)
\* The call reached save_finance and stored ls.
Saved(ls, result) == [loans |-> ls, result |-> result, saved |-> TRUE]
\* The call returned or raised before save_finance: ls is what was stored.
NotSaved(ls, result) == [loans |-> ls, result |-> result, saved |-> FALSE]

NewLoan(a) ==
  LET base == [name |-> a.name, principal |-> a.principal,
               taken_amount |-> a.principal, rate |-> a.rate,
               loan_type |-> a.loan_type,
               interest_frequency |-> a.interest_frequency,
               start_date |-> a.start_date, payments |-> <<>>]
  IN  IF a.loan_type = "BANK"
      THEN [k \in DOMAIN base \cup {"tenure", "emi"} |->
              IF k = "tenure" THEN a.tenure
              ELSE IF k = "emi" THEN a.emi ELSE base[k]]
      ELSE base

\* Faulty variant of add_loan: the new loan is put first in the ledger.
add_loan_in_front(ls, td, a) ==
  IF DateGT(a.start_date, td)
  THEN NotSaved(ls, "ValueError")
  ELSE Saved(<<NewLoan(a)>> \o ls, "ok")

add_loan(ls, td, a) ==
  IF DateGT(a.start_date, td)
  THEN NotSaved(ls, "ValueError")
  ELSE Saved(Append(ls, NewLoan(a)), "ok")

\* Faulty variant of delete_loan: pop() without the index removes the last loan.
delete_loan_pops_last(ls, index) ==
  IF 0 <= index /\ index < Len(ls)
  THEN Saved(SubSeq(ls, 1, Len(ls) - 1), "ok")
  ELSE NotSaved(ls, "IndexError")

delete_loan(ls, index) ==
  IF 0 <= index /\ index < Len(ls)
  THEN Saved([i \in 1..(Len(ls) - 1) |-> IF i <= index THEN ls[i] ELSE ls[i + 1]], "ok")
  ELSE NotSaved(ls, "IndexError")

\* Faulty variant of EmiAlreadyPaid: the stored date is compared with == instead of
\* startswith.
EmiAlreadyPaidExactDate(loan, note, month_key) ==
  /\ loan.loan_type = "BANK"
  /\ note = "EMI"
  /\ \E i \in 1..Len(loan.payments) :
        /\ loan.payments[i].note = "EMI"
        /\ loan.payments[i].date = month_key

\* lines 176-180: the one-EMI-per-month scan
EmiAlreadyPaid(loan, note, month_key) ==
  /\ loan.loan_type = "BANK"
  /\ note = "EMI"
  /\ \E i \in 1..Len(loan.payments) :
        /\ loan.payments[i].note = "EMI"
        /\ StartsWith(loan.payments[i].date, month_key)

\* Faulty variant of ReducePrincipal: every payment on an interest-only loan reduces.
ReducePrincipalAnyNote(loan, amount, note) ==
  IF loan.loan_type = "INTEREST_ONLY"
  THEN [loan EXCEPT !.principal = Max(0, loan.principal - amount)]
  ELSE loan

\* Faulty variant of ReducePrincipal: no floor at zero.
ReducePrincipalNoFloor(loan, amount, note) ==
  IF loan.loan_type = "INTEREST_ONLY" /\ note = "PRINCIPAL"
  THEN [loan EXCEPT !.principal = loan.principal - amount]
  ELSE loan

\* lines 182-184: PRINCIPAL reduction of an interest-only loan
ReducePrincipal(loan, amount, note) ==
  IF loan.loan_type = "INTEREST_ONLY" /\ note = "PRINCIPAL"
  THEN [loan EXCEPT !.principal = Max(0, loan.principal - amount)]
  ELSE loan

\* Faulty variant of ReduceByEmi: every payment on a bank loan counts as an EMI.
ReduceByEmiAnyNote(loan, amount, note) ==
  IF loan.loan_type = "BANK"
  THEN LET rate == MonthlyRate(loan.rate)
           interest == RatMul(RatInt(loan.principal), rate)
           principal_component == RatMax(RatInt(0), RatSub(RatInt(amount), interest))
       IN  [loan EXCEPT !.principal =
              Round2(RatMax(RatInt(0), RatSub(RatInt(loan.principal), principal_component)))]
  ELSE loan

\* Faulty variant of ReduceByEmi: the whole EMI is taken off the principal.
ReduceByWholeEmi(loan, amount, note) ==
  IF loan.loan_type = "BANK" /\ note = "EMI"
  THEN [loan EXCEPT !.principal = Max(0, loan.principal - amount)]
  ELSE loan

\* lines 186-193: EMI principal reduction of a bank loan
ReduceByEmi(loan, amount, note) ==
  IF loan.loan_type = "BANK" /\ note = "EMI"
  THEN LET rate == MonthlyRate(loan.rate)
           interest == RatMul(RatInt(loan.principal), rate)
           principal_component == RatMax(RatInt(0), RatSub(RatInt(amount), interest))
       IN  [loan EXCEPT !.principal =
              Round2(RatMax(RatInt(0), RatSub(RatInt(loan.principal), principal_component)))]
  ELSE loan

\* Faulty variant of AppendPayment: the new payment is put first in the list.
AppendPaymentInFront(loan, payment_date, amount, note) ==
  [loan EXCEPT !.payments =
     <<[date |-> IsoFormat(payment_date), amount |-> amount, note |-> note]>> \o @]

\* lines 195-200
AppendPayment(loan, payment_date, amount, note) ==
  [loan EXCEPT !.payments =
     Append(@, [date |-> IsoFormat(payment_date), amount |-> amount, note |-> note])]

\* month_key as resolved by lines 168-169; utc is the day of utcnow()
ResolveKey(month_key, utc) == IF month_key = NoKey THEN MonthKeyOf(utc) ELSE month_key

\* Faulty variant of add_payment: the principal is reduced and the payment appended
\* before the one-EMI-per-month scan runs.
add_payment_scan_late(ls, td, utc, loan_index, amount, note, month_key) ==
  IF loan_index < 0 \/ loan_index >= Len(ls)
  THEN NotSaved(ls, "IndexError")
  ELSE
    LET loan == ls[loan_index + 1]
        key == ResolveKey(month_key, utc)
        payment_date == Strptime(key \o <<"-", "0", "1">>)
        paid == [ls EXCEPT ![loan_index + 1] =
                   AppendPayment(ReduceByEmi(ReducePrincipal(loan, amount, note), amount, note),
                                 payment_date, amount, note)]
    IN  IF payment_date = NoDate THEN NotSaved(ls, "ValueError")
        ELSE IF DateGT(payment_date, td) THEN NotSaved(ls, "FutureDate")
        ELSE IF EmiAlreadyPaid(loan, note, key) THEN NotSaved(paid, "DuplicateEMI")
        ELSE Saved(paid, "ok")

add_payment(ls, td, utc, loan_index, amount, note, month_key) ==
  IF loan_index < 0 \/ loan_index >= Len(ls)
  THEN NotSaved(ls, "IndexError")
  ELSE
    LET loan == ls[loan_index + 1]
        key == ResolveKey(month_key, utc)
        payment_date == Strptime(key \o <<"-", "0", "1">>)
    IN  IF payment_date = NoDate THEN NotSaved(ls, "ValueError")
        ELSE IF DateGT(payment_date, td) THEN NotSaved(ls, "FutureDate")
        ELSE IF EmiAlreadyPaid(loan, note, key) THEN NotSaved(ls, "DuplicateEMI")
        ELSE Saved(
               [ls EXCEPT ![loan_index + 1] =
                  AppendPayment(ReduceByEmi(ReducePrincipal(loan, amount, note), amount, note),
                                payment_date, amount, note)],
               "ok")

\* Python list indexing: a negative index counts from the end.
PyIndex(ls, i) == IF i < 0 THEN Len(ls) + i + 1 ELSE i + 1

\* Faulty variant of RestorePrincipal: a PRINCIPAL payment is added back on any loan.
RestorePrincipalAnyLoan(loan, popped) ==
  IF popped.note = "PRINCIPAL"
  THEN [loan EXCEPT !.principal = loan.principal + popped.amount]
  ELSE loan

\* Faulty variant of RestorePrincipal: the popped amount is added back for
\* an EMI payment too.
RestorePrincipalAlsoEmi(loan, popped) ==
  IF popped.note \in {"PRINCIPAL", "EMI"}
  THEN [loan EXCEPT !.principal = loan.principal + popped.amount]
  ELSE loan

\* lines 179-180 of modules/finance.py
RestorePrincipal(loan, popped) ==
  IF loan.loan_type = "INTEREST_ONLY" /\ popped.note = "PRINCIPAL"
  THEN [loan EXCEPT !.principal = loan.principal + popped.amount]
  ELSE loan

undo_last_payment(ls, loan_index) ==
  IF PyIndex(ls, loan_index) \notin 1..Len(ls)
  THEN NotSaved(ls, "IndexError")
  ELSE
    LET loan == ls[PyIndex(ls, loan_index)]
    IN  IF loan.payments = <<>> THEN NotSaved(ls, "False")
        ELSE
          LET popped == loan.payments[Len(loan.payments)]
              rest == [loan EXCEPT !.payments = SubSeq(@, 1, Len(@) - 1)]
          IN  Saved([ls EXCEPT ![PyIndex(ls, loan_index)] = RestorePrincipal(rest, popped)],
                    "True")

(***************************************************************************)
(* Amortization engine and read-only metrics.                              *)
(***************************************************************************)
\* a / b for b # 0, and a ** n for n >= 0
RatDiv(a, b) ==
  IF b[1] < 0 THEN Rat((0 - a[1]) * b[2], a[2] * (0 - b[1]))
  ELSE Rat(a[1] * b[2], a[2] * b[1])
RECURSIVE RatPow(_, _)
RatPow(a, n) == IF n = 0 THEN RatInt(1) ELSE RatMul(a, RatPow(a, n - 1))

\* Faulty variant of calculate_emi: the zero-rate branch forgets the tenure.
calculate_emi_whole(principal, rate, tenure) ==
  LET r == MonthlyRate(rate)
      growth == RatPow(RatAdd(RatInt(1), r), tenure)
  IN  IF r = RatInt(0) THEN RatInt(principal)
      ELSE RatDiv(RatMul(RatMul(RatInt(principal), r), growth),
                  RatSub(growth, RatInt(1)))

\* lines 207-211
calculate_emi(principal, rate, tenure) ==
  LET r == MonthlyRate(rate)
      growth == RatPow(RatAdd(RatInt(1), r), tenure)
  IN  IF r = RatInt(0) THEN RatDiv(RatInt(principal), RatInt(tenure))
      ELSE RatDiv(RatMul(RatMul(RatInt(principal), r), growth),
                  RatSub(growth, RatInt(1)))

\* Faulty variant of ScheduleRows: the principal component is not capped at
\* the opening balance.
RECURSIVE ScheduleRowsNoCap(_, _, _, _, _)
ScheduleRowsNoCap(balance, month, tenure, emi, rate) ==
  IF month > tenure \/ RatLE(balance, RatInt(0)) THEN <<>>
  ELSE
    LET opening == balance
        interest == RatMul(opening, rate)
        principal_component == RatSub(emi, interest)
        closing == RatSub(opening, principal_component)
    IN  <<[month |-> month,
           opening_balance |-> Round2(opening),
           emi |-> Round2(emi),
           interest |-> Round2(interest),
           principal |-> Round2(principal_component),
           closing_balance |-> Round2(closing)]>>
          \o ScheduleRowsNoCap(closing, month + 1, tenure, emi, rate)

\* lines 229-247: the rows from `month` on; balance is carried unrounded.
RECURSIVE ScheduleRows(_, _, _, _, _)
ScheduleRows(balance, month, tenure, emi, rate) ==
  IF month > tenure \/ RatLE(balance, RatInt(0)) THEN <<>>
  ELSE
    LET opening == balance
        interest == RatMul(opening, rate)
        principal_component == RatMin(RatSub(emi, interest), opening)
        closing == RatSub(opening, principal_component)
    IN  <<[month |-> month,
           opening_balance |-> Round2(opening),
           emi |-> Round2(emi),
           interest |-> Round2(interest),
           principal |-> Round2(principal_component),
           closing_balance |-> Round2(closing)]>>
          \o ScheduleRows(closing, month + 1, tenure, emi, rate)

\* Faulty variant of build_amortization_schedule: with more EMIs paid than
\* the schedule has rows, nothing remains.
build_amortization_schedule_overflow_zero(loan) ==
  LET principal == Get(loan, "principal", 0)
      rate == MonthlyRate(Get(loan, "rate", 0))
      emi == Get(loan, "emi", 0)
      tenure == Get(loan, "tenure", 0)
      schedule == ScheduleRows(RatInt(principal), 1, tenure, RatInt(emi), rate)
      emi_paid == calculate_emis_paid(loan)
      remaining == IF emi_paid = 0 THEN principal
                   ELSE IF emi_paid <= Len(schedule)
                   THEN schedule[emi_paid].closing_balance
                   ELSE 0
  IN  [schedule |-> schedule, remaining |-> remaining]

build_amortization_schedule(loan) ==
  LET principal == Get(loan, "principal", 0)
      rate == MonthlyRate(Get(loan, "rate", 0))
      emi == Get(loan, "emi", 0)
      tenure == Get(loan, "tenure", 0)
      schedule == ScheduleRows(RatInt(principal), 1, tenure, RatInt(emi), rate)
      emi_paid == calculate_emis_paid(loan)
      remaining == IF emi_paid > 0 /\ emi_paid <= Len(schedule)
                   THEN schedule[emi_paid].closing_balance
                   ELSE principal
  IN  [schedule |-> schedule, remaining |-> remaining]

loan_outstanding(loan) ==
  IF loan.loan_type = "BANK"
  THEN build_amortization_schedule(loan).remaining
  ELSE loan.principal

(***************************************************************************)
(* Dashboard and the prepayment simulators of core/finance_store.py.  Each *)
(* while loop is taken one iteration at a time; sim holds its locals.      *)
(***************************************************************************)
\* float("inf"), the months value of a loan that cannot amortize
Inf == -1
\* None
NoValue == <<>>

\* utils/dates.py
months_between(start, end) ==
  (end[1] - start[1]) * 12 + (end[2] - start[2]) + 1

calculate_emis_elapsed(loan, td) ==
  LET start_date == Get(loan, "start_date", NoDate)
  IN  IF start_date = NoDate THEN 0
      ELSE Max(0, months_between(start_date, td))

calculate_emis_overdue(loan, td) ==
  Max(0, calculate_emis_elapsed(loan, td) - calculate_emis_paid(loan))

\* sum(...)
RECURSIVE SeqSum(_)
SeqSum(s) == IF s = <<>> THEN 0 ELSE Head(s) + SeqSum(Tail(s))

BankEmi(l) == IF l.loan_type = "BANK" THEN Get(l, "emi", 0) ELSE 0
PrincipalOf(l) == Get(l, "principal", 0)
RowInterest(row) == row.interest

\* lines 294-322; total_emi < total_outstanding * 0.02 is taken in fiftieths
dashboard_summary(ls, td) ==
  LET total_emi == SeqSum([i \in 1..Len(ls) |-> BankEmi(ls[i])])
      total_outstanding == SeqSum([i \in 1..Len(ls) |-> PrincipalOf(ls[i])])
      overdue == \E i \in 1..Len(ls) :
                   /\ ls[i].loan_type = "BANK"
                   /\ calculate_emis_overdue(ls[i], td) > 0
      status == IF overdue THEN "CRITICAL"
                ELSE IF total_emi = 0 THEN "SAFE"
                ELSE IF 50 * total_emi < total_outstanding THEN "SAFE"
                ELSE "TIGHT"
  IN  [status |-> status, total_emi |-> total_emi,
       total_outstanding |-> total_outstanding, overdue |-> overdue]

\* No simulator call is in progress.
Idle ==
  [pc |-> "idle", idx |-> 0, balance |-> RatInt(0), months |-> 0,
   interest |-> RatInt(0), before |-> "", result |-> NoValue]

\* A simulator call that returned `result`.
Returned(idx, result) == [Idle EXCEPT !.pc = "done", !.idx = idx, !.result = result]

\* A simulator call entering its while loop.
Looping(pc, idx, balance, before) ==
  [Idle EXCEPT !.pc = pc, !.idx = idx, !.balance = RatInt(balance), !.before = before]

\* Faulty variant of forecast_enter: the prepayment is added to the balance.
forecast_enter_adds_prepayment(loan, idx, prepay_amount) ==
  IF loan.loan_type # "BANK" THEN Returned(idx, <<"None">>)
  ELSE
    LET remaining == build_amortization_schedule(loan).remaining
    IN  IF prepay_amount <= 0 \/ prepay_amount >= remaining
        THEN Returned(idx, <<"None">>)
        ELSE Looping("forecast", idx, remaining + prepay_amount, "")

\* forecast_prepayment lines 262-275: up to the loop
forecast_enter(loan, idx, prepay_amount) ==
  IF loan.loan_type # "BANK" THEN Returned(idx, <<"None">>)
  ELSE
    LET remaining == build_amortization_schedule(loan).remaining
    IN  IF prepay_amount <= 0 \/ prepay_amount >= remaining
        THEN Returned(idx, <<"None">>)
        ELSE Looping("forecast", idx, remaining - prepay_amount, "")

\* forecast_prepayment lines 278-282: one iteration of the loop
forecast_iterate(s, loan) ==
  LET interest == RatMul(s.balance, MonthlyRate(Get(loan, "rate", 0)))
      principal_component == RatMin(RatSub(RatInt(Get(loan, "emi", 0)), interest), s.balance)
  IN  [s EXCEPT !.balance = RatSub(s.balance, principal_component),
                !.interest = RatAdd(s.interest, interest),
                !.months = s.months + 1]

\* forecast_prepayment lines 284-289: after the loop
forecast_return(s, loan) ==
  LET schedule == build_amortization_schedule(loan).schedule
      original_interest == SeqSum([i \in 1..Len(schedule) |-> RowInterest(schedule[i])])
  IN  Returned(s.idx,
        <<"forecast", s.months, Round2(RatSub(RatInt(original_interest), s.interest))>>)

\* prepay_stress_simulation lines 372-396: up to the loop
stress_enter(ls, td, loan_index, amount) ==
  IF loan_index < 0 \/ loan_index >= Len(ls) THEN Returned(loan_index, <<"IndexError">>)
  ELSE
    LET loan == ls[loan_index + 1]
        before == dashboard_summary(ls, td)
        remaining == Max(0, Get(loan, "principal", 0) - amount)
        emi == Get(loan, "emi", 0)
    IN  IF loan.loan_type # "BANK" THEN Returned(loan_index, <<"None">>)
        ELSE IF emi <= 0 THEN Returned(loan_index, <<"None">>)
        ELSE Looping("stress", loan_index, remaining, before.status)

\* prepay_stress_simulation lines 399-406: one iteration of the loop
stress_iterate(s, loan) ==
  LET interest == RatMul(s.balance, MonthlyRate(Get(loan, "rate", 0)))
      principal_component == RatMin(RatSub(RatInt(Get(loan, "emi", 0)), interest), s.balance)
  IN  IF RatLE(principal_component, RatInt(0))
      THEN [s EXCEPT !.months = Inf, !.pc = "stress_break"]
      ELSE [s EXCEPT !.balance = RatSub(s.balance, principal_component),
                     !.interest = RatAdd(s.interest, interest),
                     !.months = s.months + 1]

\* prepay_stress_simulation lines 408-415: after the loop
stress_return(s, loan) ==
  LET is_int == s.months # Inf
      stress_after == IF is_int /\ s.months < Get(loan, "tenure", s.months + 1)
                      THEN "SAFE" ELSE s.before
  IN  Returned(s.idx,
        <<"stress", s.before, stress_after,
          IF is_int THEN <<s.months>> ELSE NoValue,
          Round2(s.interest)>>)

(***************************************************************************)
(* The career store of core/career_store.py.  files.career is the content  *)
(* of data/career.json: absent, not JSON, or a JSON object, of which the   *)
(* model keeps whether it has the key "logs", the logs, and whether the    *)
(* keys of _validate_schema are there.  The module defines load_career and *)
(* save_career twice; a call finds the later definitions (lines 341-366).  *)
(* Backups of the file are left out.                                       *)
(***************************************************************************)
CareerFile(kind, has_logs, logs, schema) ==
  [kind |-> kind, has_logs |-> has_logs, logs |-> logs, schema |-> schema]
AbsentFile == CareerFile("absent", FALSE, <<>>, FALSE)
CorruptFile == CareerFile("corrupt", FALSE, <<>>, FALSE)
\* _safe_default of lines 268-282: profile, education, work, skills, meta
CareerDefault == CareerFile("json", FALSE, <<>>, TRUE)
\* {"logs": []}, the default of lines 18-21
LegacyDefault == CareerFile("json", TRUE, <<>>, FALSE)

(***************************************************************************)
(* The automations store of core/automation_store.py.  files.automations   *)
(* is the content of data/automations.json: absent, not JSON ("corrupt"),  *)
(* a JSON list, a JSON object ("dict", of which `data` holds the values)   *)
(* or another JSON value ("scalar").  An element is an automation (a JSON  *)
(* object with id, enabled and last_run) or something else.                *)
(***************************************************************************)
Automation(id, enabled, last_run) ==
  [kind |-> "dict", id |-> id, enabled |-> enabled, last_run |-> last_run]
OtherItem == [kind |-> "other", id |-> "", enabled |-> FALSE, last_run |-> "None"]
AutomationsFile(kind, data) == [kind |-> kind, data |-> data]
AbsentAutomations == AutomationsFile("absent", <<>>)
DEFAULT_AUTOMATIONS == <<Automation("DAILY_DIGEST", TRUE, "None")>>

\* save_automations, lines 166-172, and _save, lines 74-76
save_automations(autos) == AutomationsFile("list", autos)

\* Faulty variant of list_automations: an unreadable file is left as it is.
list_automations_keeps_file(file) ==
  IF file.kind = "absent"
  THEN [file |-> save_automations(<<>>), result |-> <<>>, raised |-> FALSE]
  ELSE [file |-> file, result |-> IF file.kind = "list" THEN file.data ELSE <<>>,
        raised |-> FALSE]

\* list_automations, lines 83-107: the file afterwards and the list returned
list_automations(file) ==
  IF file.kind = "absent"
  THEN [file |-> save_automations(<<>>), result |-> <<>>, raised |-> FALSE]
  ELSE IF file.kind = "corrupt"
  THEN \* json.load raises, caught at line 104
       [file |-> save_automations(<<>>), result |-> <<>>, raised |-> FALSE]
  ELSE IF file.kind # "list"
  THEN \* ValueError of line 100, caught at line 104
       [file |-> save_automations(<<>>), result |-> <<>>, raised |-> FALSE]
  ELSE [file |-> file, result |-> file.data, raised |-> FALSE]

IsDict(item) == item.kind = "dict"

\* _load, lines 44-72, with _ensure_file of lines 36-41
LoadAutomations(file) ==
  IF file.kind = "corrupt"
  THEN [file |-> file, autos |-> <<>>, raised |-> TRUE]
  ELSE LET data == IF file.kind = "absent" THEN DEFAULT_AUTOMATIONS ELSE file.data
           onDisk == IF file.kind = "absent" THEN save_automations(DEFAULT_AUTOMATIONS)
                     ELSE file
           cleaned == SelectSeq(data, IsDict)
       IN  IF cleaned = <<>>
           THEN [file |-> save_automations(DEFAULT_AUTOMATIONS),
                 autos |-> DEFAULT_AUTOMATIONS, raised |-> FALSE]
           ELSE [file |-> onDisk, autos |-> cleaned, raised |-> FALSE]

\* toggle_automation, lines 110-117
toggle_automation(file, auto_id, enabled) ==
  LET loaded == LoadAutomations(file)
  IN  IF loaded.raised
      THEN [file |-> loaded.file, result |-> "JSONDecodeError", saved |-> FALSE]
      ELSE [file |-> save_automations(
                       [i \in 1..Len(loaded.autos) |->
                          IF loaded.autos[i].id = auto_id
                          THEN [loaded.autos[i] EXCEPT !.enabled = enabled]
                          ELSE loaded.autos[i]]),
            result |-> "ok", saved |-> TRUE]

\* update_last_run, lines 120-128; `now` is the formatted datetime.now()
update_last_run(file, auto_id, now) ==
  LET loaded == LoadAutomations(file)
  IN  IF loaded.raised
      THEN [file |-> loaded.file, result |-> "JSONDecodeError", saved |-> FALSE]
      ELSE [file |-> save_automations(
                       [i \in 1..Len(loaded.autos) |->
                          IF loaded.autos[i].id = auto_id
                          THEN [loaded.autos[i] EXCEPT !.last_run = now]
                          ELSE loaded.autos[i]]),
            result |-> "ok", saved |-> TRUE]

(***************************************************************************)
(* The finance store on disk, core/finance_store.py lines 19-90 and        *)
(* 419-430.  files.finance is data/finance.json, files.tmp the temporary   *)
(* file of _atomic_write, files.backups the backups directory and          *)
(* files.made the number of backup copies made so far.  A file is absent,  *)
(* a JSON document (of which `doc` is the list of loans), text that is not *)
(* JSON ("corrupt"), bytes that are not text ("undecodable"), or a file    *)
(* opened for writing whose content is not yet written ("partial").        *)
(***************************************************************************)
FileOf(kind, doc) == [kind |-> kind, doc |-> doc]
NoFile == FileOf("absent", <<>>)
JsonFile(doc) == FileOf("json", doc)
NotJson == FileOf("corrupt", <<>>)
NotText == FileOf("undecodable", <<>>)
Truncated == FileOf("partial", <<>>)

MAX_BACKUPS == 10

\* The tags of the backups made, in the order of their file names.
Tags == <<"add_loan", "before_restore", "corrupt", "delete_loan",
          "payment_interest", "undo_payment">>
TagRank(tag) == CHOOSE i \in 1..Len(Tags) : Tags[i] = tag

\* A backup is finance_<ts>_<tag>.json; ts is _timestamp(), to the second.
\* `made` tells the copies apart in the order they were made.
Backup(ts, tag, content, made) ==
  [ts |-> ts, tag |-> tag, content |-> content, made |-> made]
SameName(a, b) == a.ts = b.ts /\ a.tag = b.tag
\* The order sorted() puts two backup paths in.
NameLess(a, b) == a.ts < b.ts \/ (a.ts = b.ts /\ TagRank(a.tag) < TagRank(b.tag))

\* Faulty variant of _create_backup: the live file is not copied.
create_backup_skips_copy(fs, ts, tag) == fs

\* _create_backup, lines 42-53: copy2 writes over a backup of the same name;
\* of the sorted paths all but the last MAX_BACKUPS are unlinked.
create_backup(fs, ts, tag) ==
  IF fs.finance.kind = "absent" THEN fs
  ELSE LET new == Backup(ts, tag, fs.finance, fs.made + 1)
           copied == {b \in fs.backups : ~SameName(b, new)} \cup {new}
           kept == {b \in copied :
                      Cardinality({c \in copied : NameLess(b, c)}) < MAX_BACKUPS}
       IN  [fs EXCEPT !.backups = kept, !.made = @ + 1]

\* No session is running a call on the store.
NoSessions == <<>>

FilesAtStart ==
  [career |-> AbsentFile, automations |-> AbsentAutomations,
   finance |-> NoFile, tmp |-> NoFile, backups |-> {}, made |-> 0]

(***************************************************************************)
(* The ledger as a state machine.                                          *)
(***************************************************************************)
BankInputs ==
  [name : Names, principal : Principals, rate : Rates, start_date : StartDates,
   tenure : Tenures, emi : Emis, loan_type : {"BANK"},
   interest_frequency : {"MONTHLY"}]
FamilyInputs ==
  [name : Names, principal : Principals, rate : Rates, start_date : StartDates,
   tenure : {0}, emi : {0}, loan_type : {"INTEREST_ONLY"},
   interest_frequency : {"MONTHLY"}]
\* Loan indices a call may be given: every position, one past the end, and -1.
Indices(ls) == (0 - 1)..Len(ls)

Init ==
  /\ loans = <<>>
  /\ today = FirstDay
  /\ last = Done("init", 0, NotSaved(<<>>, "ok"))
  /\ sim = Idle
  /\ files = FilesAtStart
  /\ sessions = NoSessions
  /\ time = 0

AddLoan ==
  \E a \in BankInputs \cup FamilyInputs :
    LET out == add_loan(loans, today, a)
    IN  /\ Len(out.loans) <= MaxLoans
        /\ loans' = out.loans
        /\ last' = Done("add_loan", Len(loans), out)
        /\ UNCHANGED <<today, sim, files, sessions, time>>

DeleteLoan ==
  \E index \in Indices(loans) :
    LET out == delete_loan(loans, index)
    IN  /\ loans' = out.loans
        /\ last' = Done("delete_loan", index, out)
        /\ UNCHANGED <<today, sim, files, sessions, time>>

AddPayment ==
  \E loan_index \in Indices(loans), amount \in Amounts, note \in Notes,
     month_key \in MonthKeys \cup {NoKey} :
    \E utc \in IF month_key = NoKey THEN UtcDays(today) ELSE {today} :
    LET out == add_payment(loans, today, utc, loan_index, amount, note, month_key)
    IN  /\ TotalPayments(out.loans) <= MaxPayments
        /\ loans' = out.loans
        /\ last' = Done("add_payment", loan_index, out)
        /\ UNCHANGED <<today, sim, files, sessions, time>>

UndoLastPayment ==
  \E loan_index \in Indices(loans) :
    LET out == undo_last_payment(loans, loan_index)
    IN  /\ loans' = out.loans
        /\ last' = Done("undo_last_payment", loan_index, out)
        /\ UNCHANGED <<today, sim, files, sessions, time>>

\* The clock moves on to a later day.
Tick ==
  \E d \in ModelDates :
    /\ DateGT(d, today)
    /\ today' = d
    /\ last' = Done("tick", 0, NotSaved(<<>>, "ok"))
    /\ UNCHANGED <<loans, sim, files, sessions, time>>

Next == AddLoan \/ DeleteLoan \/ AddPayment \/ UndoLastPayment \/ Tick

Spec == Init /\ [][Next]_vars

(***************************************************************************)
(* The simulators run on a stored ledger: one loan as add_loan stores it,  *)
(* with or without a first EMI payment, read on the day or the day after.  *)
(***************************************************************************)
SimEmis == {0, 1, 5}
Prepays == {0, 1, 4}
SimBankInputs ==
  [name : Names, principal : Principals, rate : Rates, start_date : {FirstDay},
   tenure : Tenures, emi : SimEmis, loan_type : {"BANK"},
   interest_frequency : {"MONTHLY"}]
SimFamilyInputs ==
  [name : Names, principal : {8}, rate : Rates, start_date : {FirstDay},
   tenure : {0}, emi : {0}, loan_type : {"INTEREST_ONLY"},
   interest_frequency : {"MONTHLY"}]
NewLedgers == {add_loan(<<>>, FirstDay, a).loans : a \in SimBankInputs \cup SimFamilyInputs}
PaidLedgers ==
  {add_payment(ls, FirstDay, FirstDay, 0, amount, "EMI", MonthKeyOf(FirstDay)).loans :
     ls \in NewLedgers, amount \in Amounts}
SimLedgers == NewLedgers \cup PaidLedgers

SimInit ==
  /\ loans \in SimLedgers
  /\ today \in ModelDates
  /\ last = Done("init", 0, NotSaved(<<>>, "ok"))
  /\ sim = Idle
  /\ files = FilesAtStart
  /\ sessions = NoSessions
  /\ time = 0

SimCallable == sim.pc \in {"idle", "done"}

StartForecast ==
  /\ SimCallable
  /\ \E i \in 1..Len(loans), prepay_amount \in Prepays :
       sim' = forecast_enter(loans[i], i - 1, prepay_amount)
  /\ UNCHANGED <<loans, today, last, files, sessions, time>>

ForecastStep ==
  /\ sim.pc = "forecast"
  /\ RatLT(RatInt(0), sim.balance)
  /\ sim.months < MaxSimMonths
  /\ sim' = forecast_iterate(sim, loans[sim.idx + 1])
  /\ UNCHANGED <<loans, today, last, files, sessions, time>>

ForecastReturn ==
  /\ sim.pc = "forecast"
  /\ ~RatLT(RatInt(0), sim.balance)
  /\ sim' = forecast_return(sim, loans[sim.idx + 1])
  /\ UNCHANGED <<loans, today, last, files, sessions, time>>

StartStress ==
  /\ SimCallable
  /\ \E loan_index \in Indices(loans), amount \in Prepays :
       sim' = stress_enter(loans, today, loan_index, amount)
  /\ UNCHANGED <<loans, today, last, files, sessions, time>>

\* Faulty variant of StressStep: the projected balance is written into the
\* loan the projection reads.
StressStepStoresBalance ==
  /\ sim.pc = "stress"
  /\ RatLT(RatInt(0), sim.balance)
  /\ sim.months < MaxSimMonths
  /\ sim' = stress_iterate(sim, loans[sim.idx + 1])
  /\ loans' = [loans EXCEPT ![sim.idx + 1].principal = Round2(sim'.balance)]
  /\ UNCHANGED <<today, last, files, sessions, time>>

StressStep ==
  /\ sim.pc = "stress"
  /\ RatLT(RatInt(0), sim.balance)
  /\ sim.months < MaxSimMonths
  /\ sim' = stress_iterate(sim, loans[sim.idx + 1])
  /\ UNCHANGED <<loans, today, last, files, sessions, time>>

StressReturn ==
  /\ \/ sim.pc = "stress" /\ ~RatLT(RatInt(0), sim.balance)
     \/ sim.pc = "stress_break"
  /\ sim' = stress_return(sim, loans[sim.idx + 1])
  /\ UNCHANGED <<loans, today, last, files, sessions, time>>

\* Faulty variant of ReadSchedule: the engine writes the remaining balance
\* back into the loan it was given.
ReadScheduleWritesBack ==
  /\ SimCallable
  /\ \E i \in 1..Len(loans) :
       LET built == build_amortization_schedule(loans[i])
       IN  /\ sim' = Returned(i - 1, <<"schedule", built.schedule, built.remaining>>)
           /\ loans' = [loans EXCEPT ![i].principal = built.remaining]
  /\ UNCHANGED <<today, last, files, sessions, time>>

\* A caller reads the schedule and remaining balance of a stored loan.
ReadSchedule ==
  /\ SimCallable
  /\ \E i \in 1..Len(loans) :
       LET built == build_amortization_schedule(loans[i])
       IN  sim' = Returned(i - 1, <<"schedule", built.schedule, built.remaining>>)
  /\ UNCHANGED <<loans, today, last, files, sessions, time>>

\* The loan form computes the EMI of the terms entered.
MaxEmiTenure == 3
EmiPrincipals == {0 - 7, 0, 5, 100}
EmiRates == {0, 120}
CalculateEmi ==
  /\ SimCallable
  /\ \E principal \in EmiPrincipals, rate \in EmiRates, tenure \in 1..MaxEmiTenure :
       sim' = Returned(0, <<"emi", principal, rate, tenure,
                            calculate_emi(principal, rate, tenure)>>)
  /\ UNCHANGED <<loans, today, last, files, sessions, time>>

SimNext ==
  \/ StartForecast
  \/ ForecastStep
  \/ ForecastReturn
  \/ StartStress
  \/ StressStep
  \/ StressReturn
  \/ ReadSchedule
  \/ CalculateEmi

SpecSim == SimInit /\ [][SimNext]_vars

(***************************************************************************)
(* Ledgers of several loans: each loan as add_loan stores it, with or      *)
(* without one payment; deletions act on them.                             *)
(***************************************************************************)
MaxLedger == 3
LedgerInputs ==
  {a \in BankInputs \cup FamilyInputs : a.principal = 8 /\ a.start_date = FirstDay}
LedgerLoans ==
  LET fresh == {add_loan(<<>>, FirstDay, a).loans : a \in LedgerInputs}
      paid == {add_payment(ls, FirstDay, FirstDay, 0, 1,
                           IF ls[1].loan_type = "BANK" THEN "EMI" ELSE "PRINCIPAL",
                           MonthKeyOf(FirstDay)).loans : ls \in fresh}
  IN  {ls[1] : ls \in fresh \cup paid}
Ledgers == UNION {[1..n -> LedgerLoans] : n \in 0..MaxLedger}

LedgerInit ==
  /\ loans \in Ledgers
  /\ today = FirstDay
  /\ last = Done("init", 0, NotSaved(<<>>, "ok"))
  /\ sim = Idle
  /\ files = FilesAtStart
  /\ sessions = NoSessions
  /\ time = 0

LedgerNext == DeleteLoan

SpecLedger == LedgerInit /\ [][LedgerNext]_vars

\* load_career, lines 341-356: the file afterwards and the data returned
load_career(file) ==
  IF file.kind = "json"
  THEN [file |-> file, data |-> [file EXCEPT !.schema = TRUE]]
  ELSE [file |-> CareerDefault, data |-> CareerDefault]

\* save_career, lines 359-366
save_career(data) == [data EXCEPT !.kind = "json", !.schema = TRUE]

\* log_practice, lines 52-71
log_practice(file, td, minutes, area, note, entry_date) ==
  IF minutes <= 0 THEN [file |-> file, result |-> "ValueError", saved |-> FALSE]
  ELSE IF area = "" THEN [file |-> file, result |-> "ValueError", saved |-> FALSE]
  ELSE
    LET day == IF entry_date = NoDate THEN td ELSE entry_date
        loaded == load_career(file)
        entry == [date |-> IsoFormat(day), minutes |-> minutes,
                  area |-> area, note |-> note]
    IN  IF ~loaded.data.has_logs
        THEN [file |-> loaded.file, result |-> "KeyError", saved |-> FALSE]
        ELSE [file |-> save_career([loaded.data EXCEPT !.logs = Append(@, entry)]),
              result |-> "ok", saved |-> TRUE]

\* sorted(days, reverse=True)
RECURSIVE SortedDescending(_)
SortedDescending(days) ==
  IF days = {} THEN <<>>
  ELSE LET top == CHOOSE d \in days : \A e \in days : ~DateGT(e, d)
       IN  <<top>> \o SortedDescending(days \ {top})

\* lines 143-148: the loop over the days, from position i with `cursor`
RECURSIVE StreakFrom(_, _, _)
StreakFrom(days, i, cursor) ==
  IF i > Len(days) THEN 0
  ELSE IF days[i] = cursor THEN 1 + StreakFrom(days, i + 1, PrevDay(cursor))
  ELSE 0

\* practice_streak, lines 129-149, with all_logs of lines 81-83
practice_streak(file, td) ==
  LET loaded == load_career(file)
      logs == IF loaded.data.has_logs THEN loaded.data.logs ELSE <<>>
      days == SortedDescending({Strptime(logs[i].date) : i \in 1..Len(logs)})
  IN  [file |-> loaded.file,
       streak |-> IF logs = <<>> THEN 0 ELSE StreakFrom(days, 1, td)]

MaxLogs == 3
Minutes == {0, 30}
Areas == {"", "Python"}
\* The day a practice is logged for: given, or None for today.
EntryDates(td) ==
  {PrevDay(PrevDay(PrevDay(td))), PrevDay(PrevDay(td)), PrevDay(td), td, NextDay(td)}
    \cup {NoDate}

CareerInit ==
  /\ loans = <<>>
  /\ today \in ModelDates
  /\ last = Done("init", 0, NotSaved(<<>>, "ok"))
  /\ sim = Idle
  /\ files \in {[FilesAtStart EXCEPT !.career = f] :
                 f \in {AbsentFile, CorruptFile, CareerDefault, LegacyDefault}}
  /\ sessions = NoSessions
  /\ time = 0

LogPractice ==
  \E minutes \in Minutes, area \in Areas, entry_date \in EntryDates(today) :
    LET out == log_practice(files.career, today, minutes, area, "", entry_date)
    IN  /\ Len(out.file.logs) <= MaxLogs
        /\ files' = [files EXCEPT !.career = out.file]
        /\ last' = [op |-> "log_practice", idx |-> 0, result |-> out.result,
                    saved |-> out.saved]
        /\ UNCHANGED <<loans, today, sim, sessions, time>>

ReadStreak ==
  LET out == practice_streak(files.career, today)
  IN  /\ files' = [files EXCEPT !.career = out.file]
      /\ sim' = Returned(0, <<"streak", out.streak>>)
      /\ UNCHANGED <<loans, today, last, sessions, time>>

CareerNext == LogPractice \/ ReadStreak

SpecCareer == CareerInit /\ [][CareerNext]_vars

AutoIds == {"DAILY_DIGEST", "BACKUP"}
\* What the elements of a stored list, or the values of a stored object, can be.
Items == {Automation("DAILY_DIGEST", TRUE, "None"), Automation("BACKUP", FALSE, "None"),
          OtherItem}
ItemLists == {<<>>} \cup {<<a>> : a \in Items} \cup {<<a, b>> : a, b \in Items}
AutomationsFiles ==
  {AbsentAutomations, AutomationsFile("corrupt", <<>>), AutomationsFile("scalar", <<>>)}
    \cup {AutomationsFile(k, d) : k \in {"list", "dict"}, d \in ItemLists}
\* The time of day of datetime.now(), as %H:%M
Clocks == {"09:30"}

AutoInit ==
  /\ loans = <<>>
  /\ today \in ModelDates
  /\ last = Done("init", 0, NotSaved(<<>>, "ok"))
  /\ sim = Idle
  /\ files \in {[FilesAtStart EXCEPT !.automations = f] : f \in AutomationsFiles}
  /\ sessions = NoSessions
  /\ time = 0

ListAutomations ==
  LET out == list_automations(files.automations)
  IN  /\ files' = [files EXCEPT !.automations = out.file]
      /\ sim' = [Returned(0, <<"automations", out.result>>)
                   EXCEPT !.before = files.automations.kind]
      /\ last' = [op |-> "list_automations", idx |-> 0,
                  result |-> IF out.raised THEN "raised" ELSE "ok",
                  saved |-> out.file # files.automations]
      /\ UNCHANGED <<loans, today, sessions, time>>

ToggleAutomation ==
  \E auto_id \in AutoIds, enabled \in BOOLEAN :
    LET out == toggle_automation(files.automations, auto_id, enabled)
    IN  /\ files' = [files EXCEPT !.automations = out.file]
        /\ last' = [op |-> "toggle_automation", idx |-> 0, result |-> out.result,
                    saved |-> out.saved]
        /\ UNCHANGED <<loans, today, sim, sessions, time>>

UpdateLastRun ==
  \E auto_id \in AutoIds, clock \in Clocks :
    LET out == update_last_run(files.automations, auto_id,
                               IsoFormat(today) \o " " \o clock)
    IN  /\ files' = [files EXCEPT !.automations = out.file]
        /\ last' = [op |-> "update_last_run", idx |-> 0, result |-> out.result,
                    saved |-> out.saved]
        /\ UNCHANGED <<loans, today, sim, sessions, time>>

AutoNext == ListAutomations \/ ToggleAutomation \/ UpdateLastRun

SpecAuto == AutoInit /\ [][AutoNext]_vars

(***************************************************************************)
(* Payments on a ledger of one or two loans.                               *)
(***************************************************************************)
PayLedgers == {ls \in Ledgers : Len(ls) \in {1, 2}}

PayInit ==
  /\ loans \in PayLedgers
  /\ today \in ModelDates
  /\ last = Done("init", 0, NotSaved(<<>>, "ok"))
  /\ sim = Idle
  /\ files = FilesAtStart
  /\ sessions = NoSessions
  /\ time = 0

PayNext == AddPayment

SpecPay == PayInit /\ [][PayNext]_vars

(***************************************************************************)
(* Calls on the finance store, step by step.  A session is one caller (a   *)
(* browser tab); its record holds where its call stands (pc), the call and *)
(* its arguments, the document it loaded (loaded) and holds in memory      *)
(* (data), and what the call returned or raised (result).                  *)
(***************************************************************************)
IdleSession ==
  [pc |-> "idle", op |-> "", idx |-> 0, amount |-> 0, note |-> "", name |-> <<0, "">>,
   data |-> <<>>, loaded |-> <<>>, writing |-> <<>>, after |-> "", result |-> "",
   reset |-> FALSE, calls |-> 0]
MaxCalls == 2
MaxRaceCalls == 1
\* A session may start a call when it has none under way and has made fewer
\* than `most` calls.
Callable(s, most) == sessions[s].pc \in {"idle", "done"} /\ sessions[s].calls < most
\* The session record of a call that starts.
Called(s, op) ==
  [IdleSession EXCEPT !.pc = "load", !.op = op, !.calls = sessions[s].calls + 1]
\* The session record of a call that ends.
Ended(s, result) == [sessions[s] EXCEPT !.pc = "done", !.result = result]

\* Faulty variant of save_finance: a stored loan with more payments than the
\* loan written is kept.
save_finance_merging(stored, data) ==
  [i \in 1..Len(data) |->
     IF i <= Len(stored) /\ Len(stored[i].payments) > Len(data[i].payments)
     THEN stored[i] ELSE data[i]]

\* save_finance, lines 84-90, as one step: the document written replaces
\* whatever is stored.
save_finance(stored, data) == data

(***************************************************************************)
(* Two sessions paying on one ledger: load, change in memory, save.        *)
(***************************************************************************)
\* Ledgers of two loans without payments.
RaceLedgers == {ls \in PayLedgers : Len(ls) = 2 /\ TotalPayments(ls) = 0}

RaceInit ==
  /\ loans \in RaceLedgers
  /\ today = FirstDay
  /\ last = Done("init", 0, NotSaved(<<>>, "ok"))
  /\ sim = Idle
  /\ files = FilesAtStart
  /\ sessions = [s \in {1, 2} |-> IdleSession]
  /\ time = 0

BeginPayment ==
  \E s \in DOMAIN sessions, idx \in 0..(Len(loans) - 1), note \in Notes :
    /\ Callable(s, MaxRaceCalls)
    /\ sessions' = [sessions EXCEPT ![s] =
                      [Called(s, "add_payment") EXCEPT !.idx = idx, !.amount = 1,
                                                       !.note = note]]
    /\ UNCHANGED <<loans, today, last, sim, files, time>>

\* line 160: data = load_finance()
SessionLoad ==
  \E s \in DOMAIN sessions :
    /\ sessions[s].pc = "load"
    /\ sessions[s].op = "add_payment"
    /\ sessions' = [sessions EXCEPT ![s].pc = "mutate", ![s].data = loans,
                                    ![s].loaded = loans]
    /\ UNCHANGED <<loans, today, last, sim, files, time>>

\* lines 161-200: the checks and the change, on the document in memory
SessionMutate ==
  \E s \in DOMAIN sessions :
    /\ sessions[s].pc = "mutate"
    /\ sessions[s].op = "add_payment"
    /\ LET out == add_payment(sessions[s].data, today, today, sessions[s].idx,
                              sessions[s].amount, sessions[s].note, MonthKeyOf(today))
       IN  sessions' = [sessions EXCEPT ![s] =
                          IF out.result = "ok"
                          THEN [sessions[s] EXCEPT !.pc = "save", !.data = out.loans]
                          ELSE Ended(s, out.result)]
    /\ UNCHANGED <<loans, today, last, sim, files, time>>

\* line 202: save_finance(data)
SessionSave ==
  \E s \in DOMAIN sessions :
    /\ sessions[s].pc = "save"
    /\ sessions[s].op = "add_payment"
    /\ loans' = save_finance(loans, sessions[s].data)
    /\ sessions' = [sessions EXCEPT ![s] = Ended(s, "ok")]
    /\ UNCHANGED <<today, last, sim, files, time>>

RaceNext == BeginPayment \/ SessionLoad \/ SessionMutate \/ SessionSave

SpecRace == RaceInit /\ [][RaceNext]_vars

(***************************************************************************)
(* One session calling the finance store, each call taken step by step:    *)
(* load_finance (lines 58-82), the change in memory, and save_finance      *)
(* (84-90) with _create_backup (42-53) and the three steps of              *)
(* _atomic_write (36-40); restore_backup (424-430) with the two steps of   *)
(* shutil.copy2 onto the live file.  In this specification the stored      *)
(* ledger is the document of files.finance.                                *)
(***************************************************************************)
MaxTime == 12
MaxStoreLoans == 1
MaxStorePayments == 1
StoreOps == {"load_finance", "add_loan", "delete_loan", "add_payment",
             "undo_last_payment", "restore_backup"}
\* The tag save_finance is given by each operation.
TagOf(op) ==
  CASE op = "add_loan" -> "add_loan"
    [] op = "delete_loan" -> "delete_loan"
    [] op = "add_payment" -> "payment_interest"
    [] op = "undo_last_payment" -> "undo_payment"
\* The loan the session adds, and the ledger holding it.
StoreLoans == {a \in LedgerInputs : a.loan_type = "INTEREST_ONLY"}
OneLoan == add_loan(<<>>, FirstDay, CHOOSE a \in StoreLoans : TRUE).loans

\* The backups earlier calls have left: call i made its backup in second i;
\* the calls were add_loan and delete_loan in turn.  With sameSecond the
\* first call found the file corrupt, so that load_finance made a backup
\* and save_finance another within second 1.
BackupEvent(ts, tag, content) == [ts |-> ts, tag |-> tag, content |-> content]
CallHistory(n, sameSecond) ==
  [i \in 1..n |->
     IF sameSecond
     THEN IF i = 1 THEN BackupEvent(1, "corrupt", NotJson)
          ELSE IF i % 2 = 0 THEN BackupEvent(i - 1, "add_loan", JsonFile(<<>>))
          ELSE BackupEvent(i - 1, "delete_loan", JsonFile(OneLoan))
     ELSE IF i % 2 = 1 THEN BackupEvent(i, "add_loan", JsonFile(<<>>))
          ELSE BackupEvent(i, "delete_loan", JsonFile(OneLoan))]
Histories == {CallHistory(0, FALSE), CallHistory(MAX_BACKUPS, FALSE),
              CallHistory(MAX_BACKUPS, TRUE)}
\* The files after the backups of `events` were made, one after the other.
RECURSIVE BackedUp(_, _)
BackedUp(fs, events) ==
  IF events = <<>> THEN fs
  ELSE BackedUp(create_backup([fs EXCEPT !.finance = Head(events).content],
                              Head(events).ts, Head(events).tag),
                Tail(events))
\* The ledger stored after the calls of `events`.
StoredAfter(events) ==
  IF events = <<>> THEN <<>>
  ELSE IF events[Len(events)].tag = "add_loan" THEN OneLoan ELSE <<>>
\* What the live file can be after those calls: as the last call left it,
\* or damaged from outside; before the first call it can also be absent.
LiveFiles(events) ==
  {JsonFile(StoredAfter(events)), NotJson, NotText}
    \cup (IF events = <<>> THEN {NoFile} ELSE {})

StoreInit ==
  /\ loans = <<>>
  /\ today = FirstDay
  /\ last = Done("init", 0, NotSaved(<<>>, "ok"))
  /\ sim = Idle
  /\ \E events \in Histories : \E live \in LiveFiles(events) :
       files = [BackedUp(FilesAtStart, events) EXCEPT !.finance = live]
  /\ sessions = <<IdleSession>>
  /\ time = MAX_BACKUPS

\* The backups a restore is asked for: the first and the last of the
\* directory, and one that is not there.
RestoreChoices ==
  {<<b.ts, b.tag>> : b \in {c \in files.backups :
                              \/ \A d \in files.backups : ~NameLess(d, c)
                              \/ \A d \in files.backups : ~NameLess(c, d)}}
    \cup {<<0, "add_loan">>}
BackupNamed(name) == {b \in files.backups : <<b.ts, b.tag>> = name}

StoreCall ==
  \E s \in DOMAIN sessions, op \in StoreOps :
    /\ Callable(s, MaxCalls)
    /\ op = "add_loan" => Len(files.finance.doc) < MaxStoreLoans
    /\ op = "add_payment" => TotalPayments(files.finance.doc) < MaxStorePayments
    /\ \E name \in IF op = "restore_backup" THEN RestoreChoices ELSE {<<0, "">>} :
         sessions' = [sessions EXCEPT ![s] =
                        [Called(s, op) EXCEPT
                           !.pc = IF op = "restore_backup" THEN "restore" ELSE "exists",
                           !.name = name]]
    /\ UNCHANGED <<loans, today, last, sim, files, time>>

\* _atomic_write(data) begins; the call goes on at `after` when it is done.
Writing(s, data, after) ==
  [sessions[s] EXCEPT !.pc = "open_tmp", !.writing = data, !.after = after]

\* load_finance, lines 61-62
LoadExists ==
  \E s \in DOMAIN sessions :
    /\ sessions[s].pc = "exists"
    /\ sessions' = [sessions EXCEPT ![s] =
                      IF files.finance.kind = "absent"
                      THEN Writing(s, <<>>, "read")
                      ELSE [sessions[s] EXCEPT !.pc = "read"]]
    /\ UNCHANGED <<loans, today, last, sim, files, time>>

\* load_finance, lines 64-71: json.load, and on JSONDecodeError the backup
\* and the default; bytes that are not text raise UnicodeDecodeError
LoadRead ==
  \E s \in DOMAIN sessions :
    /\ sessions[s].pc = "read"
    /\ IF files.finance.kind = "json"
       THEN /\ sessions' = [sessions EXCEPT ![s].pc = "change",
                                            ![s].data = files.finance.doc,
                                            ![s].loaded = files.finance.doc]
            /\ files' = files
       ELSE IF files.finance.kind = "undecodable"
       THEN /\ sessions' = [sessions EXCEPT ![s] = Ended(s, "UnicodeDecodeError")]
            /\ files' = files
       ELSE /\ files' = create_backup(files, time, "corrupt")
            /\ sessions' = [sessions EXCEPT ![s] =
                              [Writing(s, <<>>, "change") EXCEPT !.data = <<>>,
                                                                 !.reset = TRUE]]
    /\ UNCHANGED <<loans, today, last, sim, time>>

\* _atomic_write, line 38: open(tmp, "w")
WriteOpen ==
  \E s \in DOMAIN sessions :
    /\ sessions[s].pc = "open_tmp"
    /\ files' = [files EXCEPT !.tmp = Truncated]
    /\ sessions' = [sessions EXCEPT ![s].pc = "dump"]
    /\ UNCHANGED <<loans, today, last, sim, time>>

\* _atomic_write, lines 38-39: json.dump and close
WriteDump ==
  \E s \in DOMAIN sessions :
    /\ sessions[s].pc = "dump"
    /\ files' = [files EXCEPT !.tmp = JsonFile(sessions[s].writing)]
    /\ sessions' = [sessions EXCEPT ![s].pc = "replace"]
    /\ UNCHANGED <<loans, today, last, sim, time>>

\* _atomic_write, line 40: tmp.replace(DATA_FILE)
WriteReplace ==
  \E s \in DOMAIN sessions :
    /\ sessions[s].pc = "replace"
    /\ files' = [files EXCEPT !.finance = files.tmp, !.tmp = NoFile]
    /\ sessions' = [sessions EXCEPT ![s] =
                      IF sessions[s].after = "done" THEN Ended(s, "ok")
                      ELSE [sessions[s] EXCEPT !.pc = sessions[s].after]]
    /\ UNCHANGED <<loans, today, last, sim, time>>

\* What the operation does to the document it loaded.
Changed(op, data, idx) ==
  CASE op = "add_loan" -> add_loan(data, today, CHOOSE a \in StoreLoans : TRUE)
    [] op = "delete_loan" -> delete_loan(data, idx)
    [] op = "add_payment" ->
         add_payment(data, today, today, idx, 1, "INTEREST", MonthKeyOf(today))
    [] op = "undo_last_payment" -> undo_last_payment(data, idx)

\* The operation between load_finance and save_finance; load_finance alone
\* returns what it read.
Change ==
  \E s \in DOMAIN sessions :
    /\ sessions[s].pc = "change"
    /\ sessions' = [sessions EXCEPT ![s] =
         IF sessions[s].op = "load_finance" THEN Ended(s, "ok")
         ELSE LET out == Changed(sessions[s].op, sessions[s].data, sessions[s].idx)
              IN  IF out.saved
                  THEN [sessions[s] EXCEPT !.pc = "backup", !.data = out.loans]
                  ELSE Ended(s, out.result)]
    /\ UNCHANGED <<loans, today, last, sim, files, time>>

\* save_finance, lines 85-86: _create_backup(tag)
SaveBackup ==
  \E s \in DOMAIN sessions :
    /\ sessions[s].pc = "backup"
    /\ files' = create_backup(files, time, TagOf(sessions[s].op))
    /\ sessions' = [sessions EXCEPT ![s] = Writing(s, sessions[s].data, "done")]
    /\ UNCHANGED <<loans, today, last, sim, time>>

\* restore_backup, lines 426-429: the check and the backup before restoring
RestoreStart ==
  \E s \in DOMAIN sessions :
    /\ sessions[s].pc = "restore"
    /\ IF BackupNamed(sessions[s].name) = {}
       THEN /\ sessions' = [sessions EXCEPT ![s] = Ended(s, "FileNotFoundError")]
            /\ files' = files
       ELSE /\ files' = create_backup(files, time, "before_restore")
            /\ sessions' = [sessions EXCEPT ![s].pc = "copy_open"]
    /\ UNCHANGED <<loans, today, last, sim, time>>

\* restore_backup, line 430: copy2 opens the backup, then the live file for
\* writing
RestoreTruncate ==
  \E s \in DOMAIN sessions :
    /\ sessions[s].pc = "copy_open"
    /\ IF BackupNamed(sessions[s].name) = {}
       THEN /\ sessions' = [sessions EXCEPT ![s] = Ended(s, "FileNotFoundError")]
            /\ files' = files
       ELSE /\ files' = [files EXCEPT !.finance = Truncated]
            /\ sessions' = [sessions EXCEPT ![s].pc = "copy_write"]
    /\ UNCHANGED <<loans, today, last, sim, time>>

\* restore_backup, line 430: copy2 writes the content of the backup
RestoreCopy ==
  \E s \in DOMAIN sessions :
    /\ sessions[s].pc = "copy_write"
    /\ \E b \in BackupNamed(sessions[s].name) :
         files' = [files EXCEPT !.finance = b.content]
    /\ sessions' = [sessions EXCEPT ![s] = Ended(s, "ok")]
    /\ UNCHANGED <<loans, today, last, sim, time>>

\* A second passes.
ClockTick ==
  /\ time < MaxTime
  /\ time' = time + 1
  /\ UNCHANGED <<loans, today, last, sim, files, sessions>>

StoreNext ==
  \/ StoreCall \/ LoadExists \/ LoadRead \/ WriteOpen \/ WriteDump \/ WriteReplace
  \/ Change \/ SaveBackup \/ RestoreStart \/ RestoreTruncate \/ RestoreCopy
  \/ ClockTick

SpecStore == StoreInit /\ [][StoreNext]_vars

(***************************************************************************)
(* Properties of the loan ledger.                                          *)
(***************************************************************************)
LoanIdx == 1..Len(loans)
LastPayment(loan) == loan.payments[Len(loan.payments)]
\* The calendar month <<year, month>> a recorded payment is dated in.
PaymentMonth(p) == SubSeq(Strptime(p.date), 1, 2)
\* The last call was an accepted add_payment; its loan is loans[last.idx + 1].
PaymentAccepted == last.op = "add_payment" /\ last.result = "ok"
Rejections == {"IndexError", "ValueError", "FutureDate", "DuplicateEMI"}

\* C1: every loan of the ledger has 0 <= principal <= taken_amount, after any
\* sequence of add_loan, add_payment, undo_last_payment and delete_loan.
C1_PrincipalWithinTaken ==
  \A i \in LoanIdx :
    /\ 0 <= loans[i].principal
    /\ loans[i].principal <= loans[i].taken_amount

C3_RejectedLeavesLedger ==
  [][ ( /\ last'.op \in {"add_payment", "delete_loan"}
        /\ last'.result \in Rejections )
      => (loans' = loans /\ ~last'.saved) ]_vars

C3_Witness ==
  /\ last.op = "delete_loan"
  /\ last.result = "IndexError"
  /\ Len(loans) = 1
  /\ Len(loans[1].payments) = 2
  /\ loans[1].principal < loans[1].taken_amount

\* C4: the outstanding balance reported for a BANK loan is a function of the
\* original terms (taken_amount, rate, emi, tenure) and the number of EMI
\* payments: it is the remaining balance read at row emi_paid of the
\* schedule built from the original terms.
OriginalTerms(loan) == [loan EXCEPT !.principal = loan.taken_amount]
C4_OutstandingFromOriginalTerms ==
  \A i \in LoanIdx :
    loans[i].loan_type = "BANK" =>
      loan_outstanding(loans[i])
        = build_amortization_schedule(OriginalTerms(loans[i])).remaining

\* n / d rounded to the nearest integer, a tie going to the even one.
HalfEvenDiv(n, d) ==
  LET q == n \div d
      r == n % d
  IN  IF 2 * r < d THEN q
      ELSE IF 2 * r > d THEN q + 1
      ELSE IF q % 2 = 0 THEN q ELSE q + 1

\* What an accepted EMI add_payment on a BANK loan does to the principal, in
\* 1200ths of a hundredth: interest = principal * rate / 1200.
EmiStep(Claim(_, _, _, _)) ==
  LET i == last'.idx + 1
  IN  ( /\ last'.op = "add_payment"
        /\ last'.result = "ok"
        /\ loans[i].loan_type = "BANK"
        /\ LastPayment(loans'[i]).note = "EMI" )
      => LET before == loans[i].principal
             amount == LastPayment(loans'[i]).amount
             interest == before * loans[i].rate
             component == Max(0, 1200 * amount - interest)
         IN  /\ loans'[i].principal = HalfEvenDiv(Max(0, 1200 * before - component), 1200)
             /\ Claim(before, loans'[i].principal, 1200 * amount, interest)

\* C6 as stated: principal strictly decreases whenever it is positive and the
\* amount exceeds the month's interest, and is unchanged when amount <= interest.
C6_StrictWheneverOverInterest(before, after, amount, interest) ==
  /\ (before > 0 /\ amount > interest) => after < before
  /\ amount <= interest => after = before

\* C6 as amended: principal never increases, is unchanged when amount <=
\* interest, and strictly decreases whenever it is positive and the amount
\* exceeds the month's interest by at least one hundredth.
C6_StrictWhenOverByHundredth(before, after, amount, interest) ==
  /\ after <= before
  /\ (before > 0 /\ amount - interest >= 1200) => after < before
  /\ amount <= interest => after = before

\* C6 (as stated): an accepted EMI add_payment on a BANK loan sets principal
\* to max(0, principal - max(0, amount - principal * rate / 12 / 100)) rounded
\* to 2 decimals; principal strictly decreases whenever principal > 0 and the
\* amount exceeds the interest, and is unchanged when amount <= interest.
C6_EmiReducesPrincipal == [][EmiStep(C6_StrictWheneverOverInterest)]_vars

\* C6 (amended): an accepted EMI add_payment on a BANK loan sets principal to
\* max(0, principal - max(0, amount - principal * rate / 12 / 100)) rounded to
\* 2 decimals; principal never increases, is unchanged when amount <=
\* interest, and strictly decreases whenever principal > 0 and the amount
\* exceeds the interest by at least 0.01.
C6_EmiReducesPrincipalRounded == [][EmiStep(C6_StrictWhenOverByHundredth)]_vars

C6_Witness ==
  /\ PaymentAccepted
  /\ loans[last.idx + 1].loan_type = "BANK"
  /\ LastPayment(loans[last.idx + 1]).note = "EMI"
  /\ LastPayment(loans[last.idx + 1]).amount = 1
  /\ loans[last.idx + 1].principal = 4
  /\ loans[last.idx + 1].taken_amount = 5

\* d1 is a later calendar day than d2.
After(d1, d2) ==
  d1[1] * 10000 + d1[2] * 100 + d1[3] > d2[1] * 10000 + d2[2] * 100 + d2[3]

\* C7: an add_payment with note INTEREST on an INTEREST_ONLY loan never
\* changes the loan's principal, whatever the amount and however many such
\* payments were made; the call is accepted unless its month is in the
\* future, and then the payment is recorded last in the list, dated the
\* first day of the month, with the given amount and note.
C7_InterestKeepsPrincipal ==
  \A i \in LoanIdx :
    loans[i].loan_type = "INTEREST_ONLY" =>
      \A d \in KeyMonths, amount \in Amounts :
        LET out == add_payment(loans, today, today, i - 1, amount, "INTEREST", MonthKeyOf(d))
        IN  /\ out.loans[i].principal = loans[i].principal
            /\ out.result = "ok" <=> ~After(d, today)
            /\ out.result = "ok" =>
                  /\ Len(out.loans[i].payments) = Len(loans[i].payments) + 1
                  /\ SubSeq(out.loans[i].payments, 1, Len(loans[i].payments)) = loans[i].payments
                  /\ LastPayment(out.loans[i]).amount = amount
                  /\ LastPayment(out.loans[i]).note = "INTEREST"
                  /\ Strptime(LastPayment(out.loans[i]).date) = d

C7_Witness ==
  /\ PaymentAccepted
  /\ loans[last.idx + 1].loan_type = "INTEREST_ONLY"
  /\ Len(loans[last.idx + 1].payments) = 2
  /\ \A j \in 1..2 : loans[last.idx + 1].payments[j].note = "INTEREST"
  /\ loans[last.idx + 1].principal = loans[last.idx + 1].taken_amount

\* C8: an accepted add_payment with note PRINCIPAL and amount a on an
\* INTEREST_ONLY loan sets principal to max(0, principal_before - a): reduced
\* by exactly a, and never negative.
C8_PrincipalPaymentReduces ==
  \A i \in LoanIdx :
    loans[i].loan_type = "INTEREST_ONLY" =>
      \A d \in KeyMonths, amount \in Amounts :
        LET out == add_payment(loans, today, today, i - 1, amount, "PRINCIPAL", MonthKeyOf(d))
        IN  out.result = "ok" =>
              /\ out.loans[i].principal >= 0
              /\ out.loans[i].principal =
                    IF loans[i].principal >= amount THEN loans[i].principal - amount ELSE 0

C8_Witness ==
  /\ PaymentAccepted
  /\ loans[last.idx + 1].loan_type = "INTEREST_ONLY"
  /\ LastPayment(loans[last.idx + 1]).note = "PRINCIPAL"
  /\ LastPayment(loans[last.idx + 1]).amount = 20
  /\ loans[last.idx + 1].principal = 0
  /\ Len(loans[last.idx + 1].payments) = 2

\* The date rule of add_payment on the loan indices idxs: the call ends with
\* the future-date error, storing nothing, exactly when the first day of its
\* month is after today.
FutureRule(idxs) ==
  \A idx \in idxs, amount \in Amounts, note \in Notes :
    /\ \A d \in KeyMonths :
          LET out == add_payment(loans, today, today, idx, amount, note, MonthKeyOf(d))
          IN  /\ out.result = "FutureDate" <=> After(d, today)
              /\ out.result = "FutureDate" => (out.loans = loans /\ ~out.saved)
    /\ \A utc \in UtcDays(today) :
          LET out == add_payment(loans, today, utc, idx, amount, note, NoKey)
          IN  /\ out.result = "FutureDate" <=> After(<<utc[1], utc[2], 1>>, today)
              /\ out.result = "FutureDate" => (out.loans = loans /\ ~out.saved)

\* C9 (as stated): add_payment fails with the future-date error, recording
\* nothing, exactly when the first calendar day of the target month is
\* strictly after today, whatever loan index it is given.
C9_FutureExactly == FutureRule(Indices(loans))

\* C9 (amended): for a loan index in range, add_payment fails with the
\* future-date error, recording nothing, exactly when the first calendar day
\* of the target month is strictly after today; with a loan index out of
\* range it fails with the index error whatever the month.
C9_FutureExactlyInRange ==
  /\ FutureRule({i - 1 : i \in LoanIdx})
  /\ \A idx \in Indices(loans) \ {i - 1 : i \in LoanIdx} :
        \A amount \in Amounts, note \in Notes, d \in KeyMonths :
          add_payment(loans, today, today, idx, amount, note, MonthKeyOf(d)).result = "IndexError"

C9_Witness ==
  /\ last.op = "add_payment"
  /\ last.result = "FutureDate"
  /\ today = <<2024, 2, 1>>
  /\ Len(loans) = 1
  /\ Len(loans[1].payments) = 1

\* C10: undo_last_payment on a loan with payments removes exactly the last
\* one and, when that was a PRINCIPAL payment on an INTEREST_ONLY loan, adds
\* its amount back to principal; nothing else changes.  On a loan without
\* payments it returns false, saves nothing and changes nothing.
C10_UndoRemovesLast ==
  [][ ( /\ last'.op = "undo_last_payment"
        /\ last'.result # "IndexError" )
      => LET i == IF last'.idx < 0 THEN Len(loans) + last'.idx + 1 ELSE last'.idx + 1
             n == Len(loans[i].payments)
         IN  IF n = 0
             THEN last'.result = "False" /\ ~last'.saved /\ loans' = loans
             ELSE /\ last'.result = "True"
                  /\ last'.saved
                  /\ loans'[i].payments = SubSeq(loans[i].payments, 1, n - 1)
                  /\ loans'[i].principal =
                        loans[i].principal
                          + ( IF loans[i].loan_type = "INTEREST_ONLY"
                                 /\ loans[i].payments[n].note = "PRINCIPAL"
                              THEN loans[i].payments[n].amount ELSE 0 )
                  /\ loans' = [loans EXCEPT ![i].payments = loans'[i].payments,
                                            ![i].principal = loans'[i].principal] ]_vars

C10_Witness ==
  /\ last.op = "undo_last_payment"
  /\ last.result = "True"
  /\ loans[1].loan_type = "INTEREST_ONLY"
  /\ Len(loans[1].payments) = 1
  /\ loans[1].payments[1].note = "PRINCIPAL"
  /\ loans[1].principal = 7
  /\ loans[1].taken_amount = 8

\* The loop of a simulator call is at an iteration whose EMI does not exceed
\* the interest on the balance: emi <= balance * rate / 1200.
NonAmortizingIteration ==
  /\ sim.pc \in {"forecast", "stress"}
  /\ sim.balance[1] > 0
  /\ sim.months < MaxSimMonths
  /\ 1200 * sim.balance[2] * loans[sim.idx + 1].emi
       <= sim.balance[1] * loans[sim.idx + 1].rate

\* C5: in both simulators, an iteration whose EMI does not exceed the
\* interest on the projected balance (principal_component <= 0) leaves the
\* loop at once with months = infinity instead of going round again.
C5_GuardAbortsLoop ==
  [][ NonAmortizingIteration =>
        (sim'.pc \notin {"forecast", "stress"} /\ sim'.months = Inf) ]_vars

\* The same of prepay_stress_simulation alone.
StressGuardAbortsLoop ==
  [][ (NonAmortizingIteration /\ sim.pc = "stress") =>
        (sim'.pc = "stress_break" /\ sim'.months = Inf) ]_vars

\* forecast_prepayment has gone round MaxSimMonths times on a loan whose EMI
\* is below the interest, and the balance is above where it began.
ForecastRunsAway ==
  /\ sim.pc = "forecast"
  /\ sim.months = MaxSimMonths
  /\ RatLT(RatInt(loans[sim.idx + 1].principal), sim.balance)

\* The principal an EMI of `amount` leaves on a principal of `before` at
\* annual rate `rate`, in integer arithmetic.
AfterEmi(before, rate, amount) ==
  HalfEvenDiv(Max(0, 1200 * before - Max(0, 1200 * amount - before * rate)), 1200)

\* C11: on a BANK loan, an accepted EMI add_payment followed by
\* undo_last_payment gives back the payment list (and EMI count) of before,
\* while principal stays at the value the payment reduced it to; the same
\* month is then accepted again, and the EMI reduction is applied a second
\* time, to the already reduced principal.
C11_UndoKeepsEmiReduction ==
  \A i \in LoanIdx :
    loans[i].loan_type = "BANK" =>
      \A d \in KeyMonths, amount \in Amounts :
        LET key == MonthKeyOf(d)
            paid == add_payment(loans, today, today, i - 1, amount, "EMI", key)
            undone == undo_last_payment(paid.loans, i - 1)
            again == add_payment(undone.loans, today, today, i - 1, amount, "EMI", key)
            reduced == AfterEmi(loans[i].principal, loans[i].rate, amount)
        IN  paid.result = "ok" =>
              /\ calculate_emis_paid(paid.loans[i]) = calculate_emis_paid(loans[i]) + 1
              /\ paid.loans[i].principal = reduced
              /\ undone.result = "True"
              /\ undone.loans[i].payments = loans[i].payments
              /\ calculate_emis_paid(undone.loans[i]) = calculate_emis_paid(loans[i])
              /\ undone.loans[i].principal = reduced
              /\ undone.loans = [loans EXCEPT ![i].principal = reduced]
              /\ again.result = "ok"
              /\ again.loans[i].principal = AfterEmi(reduced, loans[i].rate, amount)
              /\ again.loans[i].principal <= reduced

\* A loan of 5 holding a single EMI of 1 with principal 3: the EMI was paid
\* (5 -> 4), undone, and paid again (4 -> 3).
C11_Witness ==
  /\ PaymentAccepted
  /\ loans[last.idx + 1].loan_type = "BANK"
  /\ loans[last.idx + 1].taken_amount = 5
  /\ Len(loans[last.idx + 1].payments) = 1
  /\ loans[last.idx + 1].payments[1].note = "EMI"
  /\ loans[last.idx + 1].payments[1].amount = 1
  /\ loans[last.idx + 1].principal = 3

\* forecast_prepayment answers null at once exactly for a loan that is not a
\* BANK loan, a prepay_amount <= 0, or a prepay_amount >= the engine's
\* remaining balance; otherwise it starts projecting remaining - prepay_amount.
ForecastNullRule ==
  \A i \in LoanIdx, prepay_amount \in Prepays :
    LET call == forecast_enter(loans[i], i - 1, prepay_amount)
        remaining == build_amortization_schedule(loans[i]).remaining
        null == \/ loans[i].loan_type # "BANK"
                \/ prepay_amount <= 0
                \/ prepay_amount >= remaining
    IN  /\ null <=> (call.pc = "done" /\ call.result = <<"None">>)
        /\ ~null <=> (call.pc = "forecast" /\ call.balance = <<remaining - prepay_amount, 1>>)

\* Every iteration of forecast_prepayment's loop brings the projected balance
\* down, so that the loop comes to its end and the record is returned.
ForecastProgress ==
  (sim.pc = "forecast" /\ sim'.pc = "forecast") => RatLT(sim'.balance, sim.balance)

\* C12: forecast_prepayment returns null whenever the loan is not a BANK
\* loan, or prepay_amount <= 0, or prepay_amount >= the remaining balance of
\* the amortization engine; for a BANK loan with 0 < prepay_amount <
\* remaining it runs its projection to the end and returns a result record.
C12_ForecastNullOrRecord == [][ForecastNullRule /\ ForecastProgress]_vars

\* A forecast_prepayment call that returned its record.
ForecastRecordReturned ==
  /\ sim.pc = "done"
  /\ sim.result[1] = "forecast"
  /\ sim.result[2] >= 1

C15_AddLoanAppends ==
  \A a \in BankInputs \cup FamilyInputs :
    LET out == add_loan(loans, today, a)
        n == Len(loans)
        new == out.loans[n + 1]
    IN  IF After(a.start_date, today)
        THEN out.result = "ValueError" /\ out.loans = loans /\ ~out.saved
        ELSE /\ out.result = "ok"
             /\ out.saved
             /\ Len(out.loans) = n + 1
             /\ \A i \in 1..n : out.loans[i] = loans[i]
             /\ new.taken_amount = a.principal
             /\ new.principal = a.principal
             /\ new.payments = <<>>
             /\ new.name = a.name
             /\ new.rate = a.rate
             /\ new.loan_type = a.loan_type
             /\ new.start_date = a.start_date

\* A loan of 12 just added, on the second day.
C15_Witness ==
  /\ last.op = "add_loan"
  /\ last.result = "ok"
  /\ today = NextDay(FirstDay)
  /\ Len(loans) = 1
  /\ loans[1].taken_amount = 12
  /\ loans[1].principal = 12
  /\ loans[1].payments = <<>>

\* BANK loan terms with a principal, rate, tenure or emi that is not positive.
NonPositiveInputs ==
  {a \in [name : Names, principal : {0 - 5, 0, 8}, rate : {0, 120},
          start_date : {FirstDay}, tenure : {0, 2}, emi : {0, 5},
          loan_type : {"BANK"}, interest_frequency : {"MONTHLY"}] :
     a.principal <= 0 \/ a.rate <= 0 \/ a.tenure <= 0 \/ a.emi <= 0}

\* BANK loan terms given without tenure (tenure=None).
NoTenureInputs ==
  [name : Names, principal : {8}, rate : {120}, start_date : {FirstDay},
   tenure : {NoValue}, emi : {5}, loan_type : {"BANK"},
   interest_frequency : {"MONTHLY"}]

\* BANK loan terms given without emi (emi=None).
NoEmiInputs ==
  [name : Names, principal : {8}, rate : {120}, start_date : {FirstDay},
   tenure : {2}, emi : {NoValue}, loan_type : {"BANK"},
   interest_frequency : {"MONTHLY"}]

\* add_loan refuses the terms a: validation error, nothing stored or saved.
Refused(a) ==
  LET out == add_loan(loans, today, a)
  IN  out.result = "ValueError" /\ out.loans = loans /\ ~out.saved

\* C16: add_loan called with a non-positive principal, rate, tenure or emi,
\* or for a BANK loan without tenure or without emi, fails with a validation
\* error and stores nothing, so that every BANK loan it stores has tenure >= 1
\* and emi > 0 and every loan it stores has positive principal and rate.
C16_AddLoanValidatesTerms ==
  /\ \A a \in NonPositiveInputs : Refused(a)
  /\ \A a \in NoTenureInputs : Refused(a)
  /\ \A a \in NoEmiInputs : Refused(a)

\* C17: delete_loan(index) with 0 <= index < number of loans removes exactly
\* the loan at that position, payments included, keeps every other loan as
\* it was and in the same order, and saves; with any other index it fails
\* with the index error and the ledger stays as it was.
C17_DeleteRemovesOne ==
  [][ last'.op = "delete_loan" =>
        LET k == last'.idx
            n == Len(loans)
        IN  IF 0 <= k /\ k < n
            THEN /\ last'.result = "ok"
                 /\ last'.saved
                 /\ Len(loans') = n - 1
                 /\ \A j \in 1..k : loans'[j] = loans[j]
                 /\ \A j \in (k + 1)..(n - 1) : loans'[j] = loans[j + 1]
            ELSE /\ last'.result = "IndexError"
                 /\ ~last'.saved
                 /\ loans' = loans ]_vars

\* The middle loan of three was deleted; the two left differ, and the second
\* carries its payment.
C17_Witness ==
  /\ last.op = "delete_loan"
  /\ last.result = "ok"
  /\ last.idx = 1
  /\ Len(loans) = 2
  /\ loans[1].loan_type = "BANK"
  /\ loans[2].loan_type = "INTEREST_ONLY"
  /\ Len(loans[2].payments) = 1

\* C18: for every principal P and tenure n >= 1, calculate_emi(P, 0, n) is
\* P / n exactly: n times the value returned is P.
C18_ZeroRateEmi ==
  (sim.pc = "done" /\ sim.result[1] = "emi" /\ sim.result[3] = 0) =>
    /\ sim.result[4] >= 1
    /\ sim.result[5][2] > 0
    /\ sim.result[5][1] * sim.result[4] = sim.result[2] * sim.result[5][2]

\* calculate_emi(100, 0, 3) has returned: 100 / 3, not a whole number.
C18_Witness ==
  /\ sim.pc = "done"
  /\ sim.result[1] = "emi"
  /\ sim.result[2] = 100
  /\ sim.result[3] = 0
  /\ sim.result[4] = 3
  /\ sim.result[5] = <<100, 3>>

\* The number of consecutive calendar days, ending with `day`, that each
\* have at least one log in `logs`.
RECURSIVE ConsecutiveDays(_, _)
ConsecutiveDays(logs, day) ==
  IF \E i \in 1..Len(logs) : logs[i].date = IsoFormat(day)
  THEN 1 + ConsecutiveDays(logs, PrevDay(day))
  ELSE 0

\* log_practice with minutes > 0 and a non-empty area succeeds and appends
\* one log, dated the day given (today when none is).
LogPracticeAppends ==
  \A entry_date \in EntryDates(today) :
    LET out == log_practice(files.career, today, 30, "Python", "", entry_date)
        day == IF entry_date = NoDate THEN today ELSE entry_date
    IN  /\ out.result = "ok"
        /\ out.saved
        /\ Len(out.file.logs) = Len(files.career.logs) + 1
        /\ SubSeq(out.file.logs, 1, Len(files.career.logs)) = files.career.logs
        /\ out.file.logs[Len(out.file.logs)].date = IsoFormat(day)
        /\ out.file.logs[Len(out.file.logs)].minutes = 30

\* practice_streak is the number of consecutive days ending today with a log.
StreakCountsDays ==
  practice_streak(files.career, today).streak = ConsecutiveDays(files.career.logs, today)

\* C19: starting from an empty or absent career store, each log_practice
\* call with minutes > 0 and a non-empty area succeeds and appends one log,
\* and practice_streak() is the number of consecutive calendar days ending
\* today that each have at least one log.
C19_LogPracticeAndStreak == LogPracticeAppends /\ StreakCountsDays

\* The same on a store that holds the key "logs".
LogPracticeAppendsToLogs == files.career.has_logs => LogPracticeAppends

\* The streak rule on a store without a log dated after today.
StreakCountsDaysToToday ==
  (\A i \in 1..Len(files.career.logs) :
     ~After(Strptime(files.career.logs[i].date), today)) => StreakCountsDays

\* Three days in a row were logged, today last, and the streak read is 3.
StreakOfThree ==
  /\ sim.pc = "done"
  /\ sim.result = <<"streak", 3>>
  /\ Len(files.career.logs) = 3
  /\ last.op = "log_practice"

\* C20: when the automations file is not valid JSON, or does not hold a
\* list, list_automations returns an empty list without raising and the
\* file afterwards contains the empty list.
C20_ListAutomationsRecovers ==
  LET out == list_automations(files.automations)
  IN  files.automations.kind \in {"corrupt", "dict", "scalar"} =>
        /\ ~out.raised
        /\ out.result = <<>>
        /\ out.file = AutomationsFile("list", <<>>)

\* list_automations returned from a file that was not JSON.
C20_Witness ==
  /\ last.op = "list_automations"
  /\ last.result = "ok"
  /\ sim.before = "corrupt"
  /\ sim.result = <<"automations", <<>>>>
  /\ files.automations = AutomationsFile("list", <<>>)

\* A file that holds a list is returned as it is and left alone.
ListAutomationsReadsList ==
  LET out == list_automations(files.automations)
  IN  files.automations.kind = "list" =>
        out.result = files.automations.data /\ out.file = files.automations

\* The (loan_type, note) pairs whose payment may change the principal.
ReducingPairs == {<<"INTEREST_ONLY", "PRINCIPAL">>, <<"BANK", "EMI">>}
\* Notes beyond the three the pages offer.
AnyNotes == Notes \cup {"OTHER", "emi"}

\* C24: only a PRINCIPAL payment on an INTEREST_ONLY loan and an EMI payment
\* on a BANK loan change principal in add_payment; a payment of any other
\* (loan_type, note) pair is accepted unless its month is in the future, and
\* is then recorded last in the loan's payment list with the principal, and
\* everything else of the ledger, unchanged.
C24_OnlyTwoPairsReduce ==
  \A i \in LoanIdx, note \in AnyNotes :
    <<loans[i].loan_type, note>> \notin ReducingPairs =>
      \A d \in KeyMonths, amount \in Amounts :
        LET out == add_payment(loans, today, today, i - 1, amount, note, MonthKeyOf(d))
        IN  /\ out.loans[i].principal = loans[i].principal
            /\ out.result = "ok" <=> ~After(d, today)
            /\ out.result = "ok" =>
                 /\ out.saved
                 /\ out.loans =
                      [loans EXCEPT ![i].payments =
                         Append(@, [date |-> IsoFormat(d), amount |-> amount, note |-> note])]

\* A PRINCIPAL payment larger than the loan was recorded on a BANK loan whose
\* principal is still the amount taken.
C24_Witness ==
  /\ PaymentAccepted
  /\ loans[last.idx + 1].loan_type = "BANK"
  /\ LastPayment(loans[last.idx + 1]).note = "PRINCIPAL"
  /\ LastPayment(loans[last.idx + 1]).amount = 20
  /\ loans[last.idx + 1].principal = loans[last.idx + 1].taken_amount
  /\ loans[last.idx + 1].principal < 20

\* The number of payments of a loan whose note is EMI.
EmiNotes(loan) ==
  Cardinality({j \in 1..Len(loan.payments) : loan.payments[j].note = "EMI"})

\* C25: the remaining balance build_amortization_schedule returns is the
\* closing balance of schedule row emi_paid when 0 < emi_paid <= len(schedule),
\* and the loan's current principal otherwise (no EMI paid, or more EMIs paid
\* than the schedule has rows); emi_paid is the number of payments with
\* note EMI.
C25_RemainingBalance ==
  \A i \in LoanIdx :
    LET built == build_amortization_schedule(loans[i])
        emi_paid == EmiNotes(loans[i])
    IN  built.remaining =
          IF 0 < emi_paid /\ emi_paid <= Len(built.schedule)
          THEN built.schedule[emi_paid].closing_balance
          ELSE loans[i].principal

\* A schedule was read of a loan with one EMI recorded and no row: the
\* remaining balance is the principal, 8.
C25_Witness ==
  /\ sim.pc = "done"
  /\ sim.result[1] = "schedule"
  /\ Len(sim.result[2]) = 0
  /\ EmiNotes(loans[sim.idx + 1]) = 1
  /\ loans[sim.idx + 1].principal = 8
  /\ sim.result[3] = 8

\* The other two cases: a row for the EMIs paid, and no EMI paid.
C25_RowCase ==
  /\ sim.pc = "done"
  /\ sim.result[1] = "schedule"
  /\ Len(sim.result[2]) = 2
  /\ EmiNotes(loans[sim.idx + 1]) = 1
  /\ sim.result[3] = sim.result[2][1].closing_balance
  /\ sim.result[3] # loans[sim.idx + 1].principal
C25_NoEmiCase ==
  /\ sim.pc = "done"
  /\ sim.result[1] = "schedule"
  /\ Len(sim.result[2]) = 2
  /\ EmiNotes(loans[sim.idx + 1]) = 0
  /\ sim.result[3] = loans[sim.idx + 1].principal

\* The terms build_amortization_schedule reads from a loan.
TenureOf(loan) == Get(loan, "tenure", 0)
EmiOf(loan) == RatInt(Get(loan, "emi", 0))
RateOf(loan) == MonthlyRate(Get(loan, "rate", 0))

\* The recurrence of the schedule, unrounded: the balance month k opens
\* with, and the interest, principal component and closing balance of a
\* month that opens with `opening`.
InterestOn(loan, opening) == RatMul(opening, RateOf(loan))
ComponentOn(loan, opening) ==
  RatMin(RatSub(EmiOf(loan), InterestOn(loan, opening)), opening)
ClosingOn(loan, opening) == RatSub(opening, ComponentOn(loan, opening))
RECURSIVE OpeningOf(_, _)
OpeningOf(loan, k) ==
  IF k = 1 THEN RatInt(loan.principal)
  ELSE ClosingOn(loan, OpeningOf(loan, k - 1))

\* The shape of a schedule: at most tenure rows, numbered from 1, one for
\* each month up to the first that would open with a balance <= 0; each row
\* opens with what the row before closed with; with tenure 0 there is no row
\* and the remaining balance is the principal.
ScheduleShape(loan) ==
  LET built == build_amortization_schedule(loan)
      s == built.schedule
  IN  /\ Len(s) <= TenureOf(loan)
      /\ \A k \in 1..Len(s) :
           /\ s[k].month = k
           /\ RatLT(RatInt(0), OpeningOf(loan, k))
           /\ k > 1 => s[k].opening_balance = s[k - 1].closing_balance
      /\ Len(s) < TenureOf(loan) => RatLE(OpeningOf(loan, Len(s) + 1), RatInt(0))
      /\ Len(s) >= 1 => s[1].opening_balance = loan.principal
      /\ TenureOf(loan) = 0 => (s = <<>> /\ built.remaining = loan.principal)

\* C26 (as stated): the schedule starts from the current principal, has at
\* most tenure rows numbered 1, 2, ..., stops as soon as the balance is <= 0,
\* and the fields of every row satisfy interest = opening * r,
\* principal = min(emi - interest, opening), closing = opening - principal.
C26_RowsSatisfyRecurrence ==
  \A i \in LoanIdx :
    /\ ScheduleShape(loans[i])
    /\ LET s == build_amortization_schedule(loans[i]).schedule
       IN  \A k \in 1..Len(s) :
             /\ RatInt(s[k].interest) = InterestOn(loans[i], RatInt(s[k].opening_balance))
             /\ RatInt(s[k].principal) =
                  RatMin(RatSub(EmiOf(loans[i]), RatInt(s[k].interest)),
                         RatInt(s[k].opening_balance))
             /\ s[k].closing_balance = s[k].opening_balance - s[k].principal

\* C26 (amended): the same, with the recurrence run on unrounded balances
\* and every field of a row being the value of the recurrence rounded to two
\* decimals.
C26_RowsRoundRecurrence ==
  \A i \in LoanIdx :
    /\ ScheduleShape(loans[i])
    /\ LET s == build_amortization_schedule(loans[i]).schedule
       IN  \A k \in 1..Len(s) :
             LET opening == OpeningOf(loans[i], k)
             IN  /\ s[k].opening_balance = Round2(opening)
                 /\ s[k].emi = Round2(EmiOf(loans[i]))
                 /\ s[k].interest = Round2(InterestOn(loans[i], opening))
                 /\ s[k].principal = Round2(ComponentOn(loans[i], opening))
                 /\ s[k].closing_balance = Round2(ClosingOn(loans[i], opening))

\* A schedule of one row was read of a loan of tenure 2: the EMI covers the
\* balance and its interest, and the row closes at 0.
C26_Witness ==
  /\ sim.pc = "done"
  /\ sim.result[1] = "schedule"
  /\ Len(sim.result[2]) = 1
  /\ TenureOf(loans[sim.idx + 1]) = 2
  /\ sim.result[2][1].principal = sim.result[2][1].opening_balance
  /\ sim.result[2][1].closing_balance = 0

\* The first day of the month a call of add_payment names; utc is the day
\* of utcnow(), used when no month_key is given.
FirstOfMonth(month_key, utc) ==
  IF month_key = NoKey THEN <<utc[1], utc[2], 1>> ELSE Strptime(month_key \o <<"-", "0", "1">>)

\* C27: a successful add_payment appends exactly one record, dated the first
\* day of the month of the call and holding its amount and note, at the end
\* of the target loan's payment list, and saves; the payments recorded
\* before, the loan's other fields apart from principal, and every other
\* loan are as they were.
C27_AddPaymentAppendsOne ==
  \A i \in LoanIdx, amount \in Amounts, note \in Notes, month_key \in MonthKeys \cup {NoKey} :
    \A utc \in UtcDays(today) :
      LET out == add_payment(loans, today, utc, i - 1, amount, note, month_key)
          record == [date |-> IsoFormat(FirstOfMonth(month_key, utc)),
                     amount |-> amount, note |-> note]
      IN  out.result = "ok" =>
            /\ out.saved
            /\ out.loans[i].payments = Append(loans[i].payments, record)
            /\ out.loans = [loans EXCEPT ![i].payments = out.loans[i].payments,
                                         ![i].principal = out.loans[i].principal]

\* A payment was accepted on the second loan of two; the first loan keeps
\* the payment it had.
C27_Witness ==
  /\ PaymentAccepted
  /\ last.idx = 1
  /\ Len(loans) = 2
  /\ Len(loans[1].payments) = 1
  /\ Len(loans[2].payments) = 1
  /\ loans[1].loan_type = "INTEREST_ONLY"

\* A payment for January was accepted after one for February: it is last.
EarlierMonthLast ==
  /\ PaymentAccepted
  /\ Len(loans[last.idx + 1].payments) = 2
  /\ PaymentMonth(loans[last.idx + 1].payments[1]) = <<2024, 2>>
  /\ PaymentMonth(loans[last.idx + 1].payments[2]) = <<2024, 1>>

\* add_payment with note PRINCIPAL on loan i (counted from 1), followed at
\* once by undo_last_payment on the loan, for the amounts `amounts`: when the
\* payment is accepted the undo returns true and the ledger is as it was
\* before the payment.
PrincipalRoundTrip(i, amounts) ==
  \A amount \in amounts, d \in KeyMonths :
    LET paid == add_payment(loans, today, today, i - 1, amount, "PRINCIPAL", MonthKeyOf(d))
        undone == undo_last_payment(paid.loans, i - 1)
    IN  paid.result = "ok" =>
          /\ undone.result = "True"
          /\ undone.loans[i].payments = loans[i].payments
          /\ undone.loans[i].principal = loans[i].principal
          /\ undone.loans = loans

\* C29: on an INTEREST_ONLY loan, add_payment with note PRINCIPAL and any
\* amount a > 0 immediately followed by undo_last_payment returns principal
\* and the payment list to their values before the payment, also when a is
\* larger than the principal at payment time.
C29_PrincipalRoundTrip ==
  \A i \in LoanIdx :
    loans[i].loan_type = "INTEREST_ONLY" => PrincipalRoundTrip(i, Amounts)

\* The round trip for the amounts that do not exceed the principal.
RoundTripWithinPrincipal ==
  \A i \in LoanIdx :
    loans[i].loan_type = "INTEREST_ONLY" =>
      PrincipalRoundTrip(i, {a \in Amounts : a <= loans[i].principal})

\* A PRINCIPAL payment of 20 on a loan of 8 was undone: the principal is 20.
RoundTripOvershoots ==
  /\ last.op = "undo_last_payment"
  /\ last.result = "True"
  /\ Len(loans) = 1
  /\ loans[1].loan_type = "INTEREST_ONLY"
  /\ loans[1].payments = <<>>
  /\ loans[1].taken_amount = 8
  /\ loans[1].principal = 20

\* A forecast_prepayment call has returned its record for loans[sim.idx + 1].
ForecastReturned == sim.pc = "done" /\ sim.result[1] = "forecast"
ForecastLoan == loans[sim.idx + 1]
ForecastRows == Len(build_amortization_schedule(ForecastLoan).schedule)

\* The schedule of a loan pays the loan off: it has a row, and its last row
\* closes with a balance <= 0.
SchedulePaysOff(loan) ==
  LET n == Len(build_amortization_schedule(loan).schedule)
  IN  n >= 1 /\ RatLE(ClosingOn(loan, OpeningOf(loan, n)), RatInt(0))

\* C30 (as stated): whenever forecast_prepayment returns a result for a BANK
\* loan, new_remaining_months is no greater than the number of rows of the
\* loan's current amortization schedule.
C30_ForecastWithinSchedule ==
  ForecastReturned => sim.result[2] <= ForecastRows

\* C30 (amended): the same for a loan whose schedule pays the loan off
\* within its tenure.
C30_ForecastWithinPaidOffSchedule ==
  (ForecastReturned /\ SchedulePaysOff(ForecastLoan)) => sim.result[2] <= ForecastRows

\* A forecast of two months was returned for a loan whose schedule pays it
\* off in two rows.
C30_Witness ==
  /\ ForecastReturned
  /\ SchedulePaysOff(ForecastLoan)
  /\ ForecastRows = 2
  /\ sim.result[2] = 2

\* A forecast of three months was returned for a loan of tenure 2 whose
\* schedule of two rows leaves a balance.
ForecastBeyondTenure ==
  /\ ForecastReturned
  /\ ~SchedulePaysOff(ForecastLoan)
  /\ ForecastRows = 2
  /\ sim.result[2] = 3

\* C28: with two sessions interleaving load, change and save on one stored
\* ledger, a save stores the ledger its session loaded with that session's
\* payment added, whatever was stored in between; so two add_payment calls
\* can both return successfully with only one of the two payments stored.
C28_SaveOverwrites ==
  [][ \A s \in DOMAIN sessions :
        (sessions[s].pc = "save" /\ sessions'[s].pc = "done") =>
          /\ sessions'[s].result = "ok"
          /\ loans' = add_payment(sessions[s].loaded, today, today, sessions[s].idx,
                                  sessions[s].amount, sessions[s].note,
                                  MonthKeyOf(today)).loans ]_vars

\* Both sessions loaded a ledger of two loans without payments, paid on
\* different loans and returned successfully; one payment is stored.
C28_Witness ==
  /\ DOMAIN sessions = {1, 2}
  /\ \A s \in {1, 2} :
       /\ sessions[s].pc = "done"
       /\ sessions[s].result = "ok"
       /\ sessions[s].calls = 1
       /\ TotalPayments(sessions[s].loaded) = 0
  /\ sessions[1].idx # sessions[2].idx
  /\ Len(loans) = 2
  /\ TotalPayments(loans) = 1

\* C21: the live finance file is never seen partly written: at every step
\* of every operation that changes it (save_finance in add_loan,
\* add_payment, delete_loan and undo_last_payment, the reset in
\* load_finance, restore_backup) it holds a complete document, the one
\* before or the new one.
C21_LiveFileNeverPartial == files.finance.kind # "partial"

\* Outside restore_backup the live file changes in one step, from what it
\* held to the complete document written to the temporary file.
AtomicWriteReplaces ==
  [][ \A s \in DOMAIN sessions :
        sessions[s].op # "restore_backup" =>
          files'.finance \in {files.finance, JsonFile(sessions[s].writing)} ]_vars

\* restore_backup has opened the live file for writing; the backup's content
\* is not yet in it.
RestoreHalfDone ==
  /\ DOMAIN sessions = {1}
  /\ sessions[1].op = "restore_backup"
  /\ sessions[1].pc = "copy_write"
  /\ files.finance = Truncated

\* At most MAX_BACKUPS backups exist.
BackupsBounded == Cardinality(files.backups) <= MAX_BACKUPS
\* A backup whose name is gone after the step was made before every backup
\* that is there after the step.
PruneOldestOnly ==
  \A r \in files.backups :
    (\A k \in files'.backups : ~SameName(r, k)) => \A k \in files'.backups : r.made < k.made
\* When save_finance replaces the live file, the backup made last is a copy
\* of the file being replaced.
BackedUpBeforeReplace ==
  \A s \in DOMAIN sessions :
    (sessions[s].pc = "replace" /\ sessions[s].after = "done") =>
      \E b \in files.backups : b.made = files.made /\ b.content = files.finance

\* C22: every save_finance has copied the previous live file into a backup
\* before replacing it, and at most 10 backups exist, namely the most
\* recently made ones: pruning removes only the oldest.
C22_BackupsMostRecent ==
  [][BackedUpBeforeReplace /\ BackupsBounded' /\ PruneOldestOnly]_vars

\* The two parts of C22 that do not depend on the order of pruning.
BackupsCopiedAndBounded == [][BackedUpBeforeReplace /\ BackupsBounded']_vars

\* Pruning by name: a step leaves the MAX_BACKUPS backups whose names sort
\* last.
PruneSmallestNames ==
  [][ \A r \in files.backups :
        (\A k \in files'.backups : ~SameName(r, k)) =>
           \A k \in files'.backups : NameLess(r, k) ]_vars

\* A backup made after another was pruned while the other is kept.
NewerBackupPruned ==
  /\ Cardinality(files.backups) = MAX_BACKUPS
  /\ \E k \in files.backups :
       /\ k.made = 1
       /\ \A b \in files.backups : b.made # 2

UndecodableRaises ==
  /\ DOMAIN sessions = {1}
  /\ sessions[1].pc = "done"
  /\ sessions[1].result = "UnicodeDecodeError"
  /\ files.finance = NotText
  /\ files.made = 0

====
